---- MODULE Spec2Model ----
(***************************************************************************)
(* Query resolution and reporting engine of the barbershop bot:            *)
(*   - QueryParserService: the keyword fallback and its date parsers,      *)
(*   - QueryParserService.parse_query with the Gemini parser in front,     *)
(*   - ReportService._get_or_fetch_transactions, the per-year cache.       *)
(*                                                                         *)
(* A query text is a sequence of tokens, the words of the text separated   *)
(* by single spaces.  The regular expressions of the parser are modelled   *)
(* on tokens; where a pattern is not anchored at a word boundary (a day    *)
(* "\d{1,2}" matches the tail of a longer number, a month name matches     *)
(* inside a longer word) the token operators below say so.                 *)
(***************************************************************************)
EXTENDS Integers, Sequences, FiniteSets, TLC

VARIABLES
    user_query,     \* the text handed to the parser, a sequence of tokens
    now_year,       \* datetime.now().year
    call,           \* the parser function that has been applied ("none" before)
    multi_ret,      \* result of _parse_multiple_dates
    range_ret,      \* result of _parse_date_range
    month_ret,      \* result of _parse_specific_month
    qr,             \* the QueryResult built by _keyword_fallback
    capster_list    \* QueryParserService._capster_list

VARIABLES
    now,                    \* datetime.now() of the report service, in minutes
    sheet,                  \* the spreadsheet: rows of each monthly worksheet
    _transactions_cache,    \* ReportService._transactions_cache
    _cache_timestamp,       \* ReportService._cache_timestamp
    fetches,                \* calls of get_transactions_dataframe so far
    req,                    \* the _get_or_fetch_transactions call of each request
    last                    \* the _get_or_fetch_transactions call that returned last

parserVars == <<user_query, now_year, call, multi_ret, range_ret, month_ret, qr, capster_list>>

cacheVars == <<now, sheet, _transactions_cache, _cache_timestamp, fetches, req, last>>

\* parse_query: the service object given to the constructor, the position
\* of the coroutine, what the awaited AI parser produced, and what the
\* coroutine handed to its caller
VARIABLES gemini_service, pq, ai, parsed

\* process_query: the position of the handler, the calls it has made so far
\* and the reply it edited into its message
VARIABLES hq, trace, sent

queryVars == <<gemini_service, pq, ai, parsed, hq, trace, sent>>

\* generate_report_from_query and generate_monthly_profit_dataframe: the
\* ledger (the rows of all worksheets), datetime.now() as a date, the call
\* that was made and what it returned; the CapsterList worksheet and the
\* alias map the bot built from it when it started
VARIABLES ledger, today, report_call, report_ret, capster_sheet, capster_alias_map

reportVars ==
    <<ledger, today, report_call, report_ret, capster_sheet, capster_alias_map>>

\* WeekCalculator.get_weeks_in_month: its arguments and the list it returned
VARIABLES week_call, weeks

weekVars == <<week_call, weeks>>

\* AuthService: the class attribute _authorized_users and the last call made
VARIABLES _authorized_users, auth_call

authVars == <<_authorized_users, auth_call>>

\* BranchService: the class attribute _user_branches, the calendar day of
\* datetime.now(), the last call made and what it returned, the transactions
\* that handle_payment_selection saved, and for each user the selection of
\* the latest set_branch not cleared since
VARIABLES _user_branches, calendar_day, branch_call, saved, selected

branchVars == <<_user_branches, calendar_day, branch_call, saved, selected>>

vars == <<parserVars, cacheVars, queryVars, reportVars, weekVars, authVars, branchVars>>

(***************************************************************************)
(* Bounds of the model.                                                    *)
(***************************************************************************)
MaxPhrases == 3

MaxTime == 5

MaxFetches == 2

\* the longest list of ids the environment names
MaxListed == 2

\* the last calendar day of the branch specification
MaxDay == 3

\* the most transactions saved in the branch specification
MaxSaved == 1

(***************************************************************************)
(* Dates.  A datetime at midnight is <<year, month, day>>; None is NoDate. *)
(***************************************************************************)
NoDate == <<0, 0, 0>>

NoRange == <<NoDate, NoDate>>

IsLeap(y) == (y % 4 = 0 /\ y % 100 # 0) \/ y % 400 = 0

DaysInMonth(y, m) ==
    IF m \in {4, 6, 9, 11} THEN 30
    ELSE IF m = 2 THEN (IF IsLeap(y) THEN 29 ELSE 28)
    ELSE 31

\* datetime(y, m, d) raises ValueError exactly when this is false
ValidDate(y, m, d) ==
    /\ y >= 1 /\ y <= 9999
    /\ m >= 1 /\ m <= 12
    /\ d >= 1 /\ d <= DaysInMonth(y, m)

DateLT(a, b) ==
    \/ a[1] < b[1]
    \/ a[1] = b[1] /\ a[2] < b[2]
    \/ a[1] = b[1] /\ a[2] = b[2] /\ a[3] < b[3]

DateLE(a, b) == a = b \/ DateLT(a, b)

(***************************************************************************)
(* Vocabulary of the month names: MONTHS_ID_REV lower-cased, plus the      *)
(* abbreviations of _get_month_map.                                        *)
(***************************************************************************)
month_map ==
    ("januari" :> 1) @@ ("februari" :> 2) @@ ("maret" :> 3) @@ ("april" :> 4) @@
    ("mei" :> 5) @@ ("juni" :> 6) @@ ("juli" :> 7) @@ ("agustus" :> 8) @@
    ("september" :> 9) @@ ("oktober" :> 10) @@ ("november" :> 11) @@
    ("desember" :> 12) @@
    ("jan" :> 1) @@ ("feb" :> 2) @@ ("mar" :> 3) @@ ("apr" :> 4) @@
    ("jun" :> 6) @@ ("jul" :> 7) @@ ("agu" :> 8) @@ ("ags" :> 8) @@
    ("aug" :> 8) @@ ("sep" :> 9) @@ ("okt" :> 10) @@ ("oct" :> 10) @@
    ("nov" :> 11) @@ ("des" :> 12) @@ ("dec" :> 12)

(***************************************************************************)
(* Lexical facts of the tokens of the model's texts.                       *)
(***************************************************************************)
\* the number tokens and their values
NumTok ==
    ("3" :> 3) @@ ("5" :> 5) @@ ("20" :> 20) @@ ("28" :> 28) @@ ("31" :> 31) @@
    ("2025" :> 2025) @@ ("2026" :> 2026)

IsNum(t) == t \in DOMAIN NumTok

DigitCount(t) ==
    IF NumTok[t] < 10 THEN 1 ELSE IF NumTok[t] < 100 THEN 2
    ELSE IF NumTok[t] < 1000 THEN 3 ELSE 4

\* "(\d{4})" right after white space: a token of four digits
IsYear4(t) == IsNum(t) /\ DigitCount(t) = 4

\* "(\d{1,2})" followed by white space: the last two digits of a number
DayTail(t) == NumTok[t] % 100

\* str.lower() on a token
LowerTable ==
    ("Januari" :> "januari") @@ ("Pendapatan" :> "pendapatan") @@
    ("Sampai" :> "sampai") @@ ("Zidan" :> "zidan") @@ ("Emma" :> "emma") @@
    ("Budi" :> "budi") @@
    ("Cabang A" :> "cabang a") @@ ("Cabang B" :> "cabang b") @@
    ("Cabang C" :> "cabang c") @@
    ("Cabang Denailla" :> "cabang denailla") @@
    ("Cabang Sumput" :> "cabang sumput")

Lower(t) == IF t \in DOMAIN LowerTable THEN LowerTable[t] ELSE t

LowerQuery(q) == [i \in 1..Len(q) |-> Lower(q[i])]

\* words of the vocabulary that hold another word as a proper substring:
\* <<token, inner word, "prefix" | "suffix" | "infix">>
SubstrFacts ==
    { <<"kemarin", "mar", "infix">>,
      <<"margin", "mar", "prefix">>,
      <<"perbandingan", "banding", "infix">>,
      <<"bulanan", "bulan", "prefix">> }

Prefix(t, w) == t = w \/ <<t, w, "prefix">> \in SubstrFacts

Suffix(t, w) ==
    \/ t = w
    \/ <<t, w, "suffix">> \in SubstrFacts
    \/ IsNum(t) /\ IsNum(w) /\ DigitCount(w) = 1 /\ NumTok[t] % 10 = NumTok[w]

Substr(t, w) ==
    \/ Prefix(t, w)
    \/ Suffix(t, w)
    \/ <<t, w, "infix">> \in SubstrFacts

\* `kw in lower_query`, kw given as its words
Has(q, kw) ==
    \E i \in 1..(Len(q) - Len(kw) + 1) :
        \A k \in 1..Len(kw) :
            IF Len(kw) = 1 THEN Substr(q[i], kw[1])
            ELSE IF k = 1 THEN Suffix(q[i], kw[1])
            ELSE IF k = Len(kw) THEN Prefix(q[i + k - 1], kw[k])
            ELSE q[i + k - 1] = kw[k]

HasAny(q, kws) == \E kw \in kws : Has(q, kw)

\* the alternation of _get_month_pattern (longest name first) at the start
\* of a token: the month name it takes, "" when the token starts with none
MonthAtStart(t) ==
    IF t \in DOMAIN month_map THEN t
    ELSE IF \E m \in DOMAIN month_map : <<t, m, "prefix">> \in SubstrFacts
    THEN CHOOSE m \in DOMAIN month_map : <<t, m, "prefix">> \in SubstrFacts
    ELSE ""

\* a month name inside a token, not at its start
MonthInside(t) ==
    IF \E m \in DOMAIN month_map : <<t, m, "infix">> \in SubstrFacts
    THEN CHOOSE m \in DOMAIN month_map : <<t, m, "infix">> \in SubstrFacts
    ELSE ""

\* the month name is the whole token, so "\s*(\d{4})?" can reach the next one
IsMonthName(t) == t \in DOMAIN month_map

(***************************************************************************)
(* The day-month(-year) pattern "(\d{1,2})\s+(month)\s*(\d{4})?" at token  *)
(* i.  next is the first token after the match; the match swallows the     *)
(* space after a month that no year follows (the greedy "\s*").            *)
(***************************************************************************)
NoMatch ==
    [ok |-> FALSE, start |-> 0, day |-> 0, mon |-> "", hasYear |-> FALSE,
     year |-> 0, next |-> 0]

DateAt(q, i) ==
    IF i + 1 <= Len(q) /\ IsNum(q[i]) /\ MonthAtStart(q[i + 1]) # ""
    THEN LET hasY == /\ IsMonthName(q[i + 1])
                     /\ i + 2 <= Len(q)
                     /\ IsYear4(q[i + 2])
         IN  [ok |-> TRUE, start |-> i, day |-> DayTail(q[i]),
              mon |-> MonthAtStart(q[i + 1]), hasYear |-> hasY,
              year |-> IF hasY THEN NumTok[q[i + 2]] ELSE 0,
              next |-> IF hasY THEN i + 3 ELSE i + 2]
    ELSE NoMatch

\* re.finditer(date_pattern, lower_query): the non-overlapping matches
RECURSIVE FindDatesFrom(_, _)
FindDatesFrom(q, i) ==
    IF i > Len(q) THEN <<>>
    ELSE IF DateAt(q, i).ok
         THEN <<DateAt(q, i)>> \o FindDatesFrom(q, DateAt(q, i).next)
         ELSE FindDatesFrom(q, i + 1)

FindDates(q) == FindDatesFrom(q, 1)

\* re.search(date_pattern, lower_query): the first match
FirstDate(q) == IF FindDates(q) = <<>> THEN NoMatch ELSE FindDates(q)[1]

Reverse(s) == [i \in 1..Len(s) |-> s[Len(s) + 1 - i]]

(***************************************************************************)
(* QueryParserService._parse_multiple_dates                                *)
(***************************************************************************)
\* `sep in text_between_first_two` for the separators of range_seps; the
\* text between starts with a space only when the first match did not
\* swallow it, and ' sd ' and ' - ' need a space on both sides
HasRangeSep(q, m1, m2) ==
    LET leadingSpace == m1.hasYear \/ ~IsMonthName(q[m1.start + 1])
    IN  \E k \in m1.next..(m2.start - 1) :
            \/ \E w \in {"sampai", "hingga", "s/d", "s.d."} : Substr(q[k], w)
            \/ /\ q[k] \in {"sd", "-"}
               /\ (k > m1.next \/ leadingSpace)

\* the loop over reversed(matches): a missing year is taken from the nearest
\* explicit year to the right, else the current year; a ValueError drops the
\* date.  The dates come out in the order they were appended (right to left).
RECURSIVE ParseReversed(_, _, _, _)
ParseReversed(ms, k, last_year, nowYear) ==
    IF k = 0 THEN <<>>
    ELSE LET m == ms[k]
             month_num == month_map[m.mon]
             year_num == IF m.hasYear THEN m.year
                         ELSE IF last_year # 0 THEN last_year
                         ELSE nowYear
             ly == IF m.hasYear THEN m.year ELSE last_year
             rest == ParseReversed(ms, k - 1, ly, nowYear)
         IN  IF ValidDate(year_num, month_num, m.day)
             THEN <<(<<year_num, month_num, m.day>>)>> \o rest
             ELSE rest

\* list.sort() of datetimes
SortDates(ds) == SortSeq(ds, DateLT)

_parse_multiple_dates(q, nowYear) ==
    LET matches == FindDates(q)
    IN  IF Len(matches) < 2 THEN <<>>
        ELSE IF HasRangeSep(q, matches[1], matches[2]) THEN <<>>
        ELSE LET parsed_dates == ParseReversed(matches, Len(matches), 0, nowYear)
             IN  IF Len(parsed_dates) < 2 THEN <<>>
                 ELSE SortDates(Reverse(parsed_dates))

(***************************************************************************)
(* QueryParserService._parse_date_range                                    *)
(***************************************************************************)
\* the separators of pattern_full ("s/?d" is "sd" or "s/d")
FullSeps == {"sampai", "hingga", "sd", "s/d", "s.d.", "ke", "-"}

\* the separators of pattern_short
ShortSeps == {"sampai", "hingga", "sd", "s/d", "s.d.", "-"}

NoRangeMatch ==
    [ok |-> FALSE, d1 |-> 0, m1 |-> "", y1 |-> 0, d2 |-> 0, m2 |-> "", y2 |-> 0]

\* pattern_full with its first day at token i: day month [year] sep
\* [tanggal|tgl] day month [year].  The first month must be a whole word
\* (white space or the year follows it), the second day a whole number of
\* one or two digits (the separator's "\s+" comes right before it).
FullRangeAt(q, i) ==
    IF ~(i + 1 <= Len(q) /\ IsNum(q[i]) /\ IsMonthName(q[i + 1])) THEN NoRangeMatch
    ELSE
    LET hasY1 == i + 2 <= Len(q) /\ IsYear4(q[i + 2])
        s == IF hasY1 THEN i + 3 ELSE i + 2
        p == IF s + 1 <= Len(q) /\ q[s + 1] \in {"tanggal", "tgl"}
             THEN s + 2 ELSE s + 1
    IN  IF /\ s <= Len(q) /\ q[s] \in FullSeps
           /\ p + 1 <= Len(q)
           /\ IsNum(q[p]) /\ DigitCount(q[p]) <= 2
           /\ MonthAtStart(q[p + 1]) # ""
        THEN LET hasY2 == /\ IsMonthName(q[p + 1])
                          /\ p + 2 <= Len(q)
                          /\ IsYear4(q[p + 2])
             IN  [ok |-> TRUE,
                  d1 |-> DayTail(q[i]), m1 |-> q[i + 1],
                  y1 |-> IF hasY1 THEN NumTok[q[i + 2]] ELSE 0,
                  d2 |-> NumTok[q[p]], m2 |-> MonthAtStart(q[p + 1]),
                  y2 |-> IF hasY2 THEN NumTok[q[p + 2]] ELSE 0]
        ELSE NoRangeMatch

\* pattern_short with its first day at token i: day sep day month [year].
\* m1 and y1 are not groups of this pattern.
ShortRangeAt(q, i) ==
    IF /\ i + 3 <= Len(q)
       /\ IsNum(q[i])
       /\ q[i + 1] \in ShortSeps
       /\ IsNum(q[i + 2]) /\ DigitCount(q[i + 2]) <= 2
       /\ MonthAtStart(q[i + 3]) # ""
    THEN LET hasY == /\ IsMonthName(q[i + 3])
                     /\ i + 4 <= Len(q)
                     /\ IsYear4(q[i + 4])
         IN  [ok |-> TRUE,
              d1 |-> DayTail(q[i]), m1 |-> "", y1 |-> 0,
              d2 |-> NumTok[q[i + 2]], m2 |-> MonthAtStart(q[i + 3]),
              y2 |-> IF hasY THEN NumTok[q[i + 4]] ELSE 0]
    ELSE NoRangeMatch

\* re.search: the leftmost match of a pattern
OkOr(match, later) == IF match.ok THEN match ELSE later

RECURSIVE SearchFull(_, _)
SearchFull(q, i) ==
    IF i > Len(q) THEN NoRangeMatch
    ELSE OkOr(FullRangeAt(q, i), SearchFull(q, i + 1))

RECURSIVE SearchShort(_, _)
SearchShort(q, i) ==
    IF i > Len(q) THEN NoRangeMatch
    ELSE OkOr(ShortRangeAt(q, i), SearchShort(q, i + 1))

\* the pair of dates of a match, NoRange when there is no match, a date is
\* invalid (ValueError) or end < start
RangeOf(ok, start, end) ==
    IF /\ ok
       /\ ValidDate(start[1], start[2], start[3])
       /\ ValidDate(end[1], end[2], end[3])
       /\ DateLE(start, end)
    THEN <<start, end>>
    ELSE NoRange

\* y1 = int(y1_str) if y1_str else (int(y2_str) if y2_str else now.year)
FullYear1(match, nowYear) ==
    IF match.y1 # 0 THEN match.y1
    ELSE IF match.y2 # 0 THEN match.y2 ELSE nowYear

\* y2 = int(y2_str) if y2_str else y1
FullYear2(match, y1) == IF match.y2 # 0 THEN match.y2 ELSE y1

FullRangeOf(match, y1) ==
    RangeOf(match.ok,
            <<y1, month_map[match.m1], match.d1>>,
            <<FullYear2(match, y1), month_map[match.m2], match.d2>>)

ShortRangeOf(match, y) ==
    RangeOf(match.ok,
            <<y, month_map[match.m2], match.d1>>,
            <<y, month_map[match.m2], match.d2>>)

ShortYear(match, nowYear) == IF match.y2 # 0 THEN match.y2 ELSE nowYear

FullRangeOfMatch(match, nowYear) == FullRangeOf(match, FullYear1(match, nowYear))

ShortRangeOfMatch(match, nowYear) == ShortRangeOf(match, ShortYear(match, nowYear))

\* the first pattern whose range is usable
FirstRange(full, short) == IF full # NoRange THEN full ELSE short

\* Pattern 1: the range of the first pattern_full match
FullRange(q, nowYear) == FullRangeOfMatch(SearchFull(q, 1), nowYear)

\* Pattern 2: the same for pattern_short
ShortRange(q, nowYear) == ShortRangeOfMatch(SearchShort(q, 1), nowYear)

_parse_date_range(q, nowYear) ==
    FirstRange(FullRange(q, nowYear), ShortRange(q, nowYear))

(***************************************************************************)
(* QueryParserService._parse_specific_date                                 *)
(***************************************************************************)
DateOf(match, year_num) ==
    IF match.ok /\ ValidDate(year_num, month_map[match.mon], match.day)
    THEN <<year_num, month_map[match.mon], match.day>>
    ELSE NoDate

DateOfMatch(match, nowYear) ==
    DateOf(match, IF match.hasYear THEN match.year ELSE nowYear)

_parse_specific_date(q, nowYear) == DateOfMatch(FirstDate(q), nowYear)

(***************************************************************************)
(* QueryParserService._parse_specific_month                                *)
(***************************************************************************)
NoMonth == <<0, 0>>

HasMonth(t) == MonthAtStart(t) # "" \/ MonthInside(t) # ""

\* "(?:bulan\s+)?(month)\s*(\d{4})?" matched at the first month name of the
\* text, which is in token j
MonthAt(q, j, nowYear) ==
    LET atStart == MonthAtStart(q[j]) # ""
        month_str == IF atStart THEN MonthAtStart(q[j]) ELSE MonthInside(q[j])
        \* the match starts at a preceding "bulan" when there is one
        first == IF atStart /\ j > 1 /\ Suffix(q[j - 1], "bulan") THEN j - 1 ELSE j
        \* lower_query[:start].rstrip() ends with a digit
        digitBefore == atStart /\ first > 1 /\ IsNum(q[first - 1])
        hasY == IsMonthName(q[j]) /\ j + 1 <= Len(q) /\ IsYear4(q[j + 1])
    IN  IF digitBefore THEN NoMonth
        ELSE <<month_map[month_str], IF hasY THEN NumTok[q[j + 1]] ELSE nowYear>>

_parse_specific_month(q, nowYear) ==
    IF \E j \in 1..Len(q) : HasMonth(q[j])
    THEN MonthAt(q, CHOOSE j \in 1..Len(q) :
                        HasMonth(q[j]) /\ \A k \in 1..(j - 1) : ~HasMonth(q[k]),
                 nowYear)
    ELSE NoMonth

(***************************************************************************)
(* QueryResult (app/models/query.py)                                       *)
(***************************************************************************)
VALID_TIMEFRAMES ==
    {"hari ini", "kemarin", "minggu ini", "minggu lalu", "bulan ini",
     "bulan lalu", "3 bulan terakhir"}

\* QueryResult.__init__; None is "None" for strings, 0 for numbers and
\* NoDate for dates
QueryResult(original_query) ==
    [original_query |-> original_query,
     metric |-> "None",
     metrics |-> <<>>,
     timeframe_str |-> "None",
     specific_date |-> NoDate,
     date_end |-> NoDate,
     specific_dates |-> <<>>,
     specific_month |-> 0,
     specific_year |-> 0,
     capsters |-> <<>>,
     branches |-> <<>>,
     report_type |-> "None",
     sort_by |-> "None",
     sort_order |-> "desc",
     limit |-> 10,
     is_valid_query |-> TRUE]

is_valid(r) ==
    \/ r.metric # "None"
    \/ r.report_type # "None"
    \/ r.timeframe_str # "None"
    \/ r.specific_date # NoDate
    \/ r.date_end # NoDate
    \/ Len(r.specific_dates) > 0
    \/ r.specific_month # 0
    \/ Len(r.metrics) > 0

(***************************************************************************)
(* QueryParserService._keyword_fallback                                    *)
(***************************************************************************)
BothMetrics == <<"revenue", "transaction_count">>

\* REPORT TYPE & METRICS: the first keyword group found in the text
\* the chain with the revenue group tried before the profit group
ReportTypeOfRevenueFirst(q) ==
    IF HasAny(q, {<<"pendapatan">>, <<"revenue">>, <<"omzet">>, <<"omset">>,
                  <<"pemasukan">>, <<"income">>})
    THEN [report_type |-> "revenue", metric |-> "pendapatan", metrics |-> <<"revenue">>]
    ELSE IF HasAny(q, {<<"laba">>, <<"rugi">>, <<"profit">>, <<"keuntungan">>,
                       <<"margin">>})
    THEN [report_type |-> "profit", metric |-> "profit",
          metrics |-> <<"revenue", "profit">>]
    ELSE [report_type |-> "general", metric |-> "None", metrics |-> BothMetrics]

ReportTypeOf(q) ==
    IF HasAny(q, {<<"ranking">>, <<"terbaik">>, <<"top", "capster">>,
                  <<"capster", "terbaik">>, <<"peringkat">>})
    THEN [report_type |-> "capster_ranking", metric |-> "None", metrics |-> BothMetrics]
    ELSE IF HasAny(q, {<<"banding">>, <<"perbandingan">>, <<"compare">>,
                       <<"vs", "cabang">>})
    THEN [report_type |-> "branch_comparison", metric |-> "None", metrics |-> BothMetrics]
    ELSE IF HasAny(q, {<<"layanan", "populer">>, <<"service", "terpopuler">>,
                       <<"paling", "laku">>, <<"terlaris">>})
    THEN [report_type |-> "service_popularity", metric |-> "None",
          metrics |-> <<"transaction_count">>]
    ELSE IF HasAny(q, {<<"laba">>, <<"rugi">>, <<"profit">>, <<"keuntungan">>,
                       <<"margin">>})
    THEN [report_type |-> "profit", metric |-> "profit",
          metrics |-> <<"revenue", "profit">>]
    ELSE IF HasAny(q, {<<"pendapatan">>, <<"revenue">>, <<"omzet">>, <<"omset">>,
                       <<"pemasukan">>, <<"income">>})
    THEN [report_type |-> "revenue", metric |-> "pendapatan", metrics |-> <<"revenue">>]
    ELSE IF HasAny(q, {<<"transaksi">>, <<"transaction">>, <<"jumlah">>})
    THEN [report_type |-> "transaction_count", metric |-> "transaksi",
          metrics |-> <<"transaction_count">>]
    ELSE IF HasAny(q, {<<"laporan", "harian">>, <<"ringkasan", "harian">>, <<"daily">>})
    THEN [report_type |-> "daily_summary", metric |-> "None", metrics |-> BothMetrics]
    ELSE IF HasAny(q, {<<"laporan", "mingguan">>, <<"ringkasan", "mingguan">>,
                       <<"weekly">>})
    THEN [report_type |-> "weekly_summary", metric |-> "None", metrics |-> BothMetrics]
    ELSE IF HasAny(q, {<<"laporan", "bulanan">>, <<"ringkasan", "bulanan">>,
                       <<"monthly">>, <<"laporan", "bulan">>})
    THEN [report_type |-> "monthly_summary", metric |-> "None", metrics |-> BothMetrics]
    ELSE [report_type |-> "general", metric |-> "None", metrics |-> BothMetrics]

\* the relative keyword chain, with the default 'bulan ini'
RelativeTimeframe(q) ==
    IF Has(q, <<"hari", "ini">>) THEN "hari ini"
    ELSE IF Has(q, <<"kemarin">>) THEN "kemarin"
    ELSE IF Has(q, <<"minggu", "lalu">>) THEN "minggu lalu"
    ELSE IF Has(q, <<"minggu", "ini">>) THEN "minggu ini"
    ELSE IF Has(q, <<"bulan", "lalu">>) THEN "bulan lalu"
    ELSE IF Has(q, <<"bulan", "ini">>) THEN "bulan ini"
    ELSE IF Has(q, <<"3", "bulan">>) \/ Has(q, <<"tiga", "bulan">>)
    THEN "3 bulan terakhir"
    ELSE "bulan ini"

NoWindow ==
    [timeframe_str |-> "None", specific_date |-> NoDate, date_end |-> NoDate,
     specific_dates |-> <<>>, specific_month |-> 0, specific_year |-> 0]

\* WindowOf with the single-date rule tried before the two list rules
WindowOfSingleDateFirst(multi_dates, date_range, specific_date, specific_month, relative) ==
    IF specific_date # NoDate
    THEN [NoWindow EXCEPT !.specific_date = specific_date,
                          !.timeframe_str = "tanggal <date>"]
    ELSE IF multi_dates # <<>>
    THEN [NoWindow EXCEPT !.specific_dates = multi_dates,
                          !.timeframe_str = "tanggal <dates>"]
    ELSE IF date_range # NoRange
    THEN [NoWindow EXCEPT !.specific_date = date_range[1],
                          !.date_end = date_range[2],
                          !.timeframe_str = "<start> - <end>"]
    ELSE IF specific_month # NoMonth
    THEN [NoWindow EXCEPT !.specific_month = specific_month[1],
                          !.specific_year = specific_month[2],
                          !.timeframe_str = "<month> <year>"]
    ELSE [NoWindow EXCEPT !.timeframe_str = relative]

\* TIMEFRAME: multiple dates > date range > single date > specific month >
\* relative keyword > default.  The rendered text of timeframe_str for the
\* date forms is fixed by the date fields and kept as a tag.
WindowOf(multi_dates, date_range, specific_date, specific_month, relative) ==
    IF multi_dates # <<>>
    THEN [NoWindow EXCEPT !.specific_dates = multi_dates,
                          !.timeframe_str = "tanggal <dates>"]
    ELSE IF date_range # NoRange
    THEN [NoWindow EXCEPT !.specific_date = date_range[1],
                          !.date_end = date_range[2],
                          !.timeframe_str = "<start> - <end>"]
    ELSE IF specific_date # NoDate
    THEN [NoWindow EXCEPT !.specific_date = specific_date,
                          !.timeframe_str = "tanggal <date>"]
    ELSE IF specific_month # NoMonth
    THEN [NoWindow EXCEPT !.specific_month = specific_month[1],
                          !.specific_year = specific_month[2],
                          !.timeframe_str = "<month> <year>"]
    ELSE [NoWindow EXCEPT !.timeframe_str = relative]

\* the parsers are pure: each is applied once and the chain of WindowOf
\* picks the first that found something
TimeWindow(q, nowYear) ==
    WindowOf(_parse_multiple_dates(q, nowYear), _parse_date_range(q, nowYear),
             _parse_specific_date(q, nowYear), _parse_specific_month(q, nowYear),
             RelativeTimeframe(q))

\* ENTITIES: Capsters
RECURSIVE CapstersIn(_, _, _)
CapstersIn(q, capsters, i) ==
    IF i > Len(capsters) THEN <<>>
    ELSE (IF Has(q, <<Lower(capsters[i])>>) THEN <<capsters[i]>> ELSE <<>>)
         \o CapstersIn(q, capsters, i + 1)

\* self._branch_aliases, in insertion order
branch_aliases ==
    << <<(<<"denailla">>), "Cabang Denailla">>,
       <<(<<"mojosari">>), "Cabang Denailla">>,
       <<(<<"cabang", "a">>), "Cabang Denailla">>,
       <<(<<"sumput">>), "Cabang Sumput">>,
       <<(<<"cabang", "b">>), "Cabang Sumput">>,
       \* the loop over self._branch_list_lower
       <<(<<"cabang", "denailla">>), "Cabang Denailla">>,
       <<(<<"cabang", "sumput">>), "Cabang Sumput">> >>

InSeq(x, s) == \E i \in 1..Len(s) : s[i] = x

\* ENTITIES: Branches (with aliases): append when found and not yet listed
RECURSIVE BranchesIn(_, _, _)
BranchesIn(q, found, i) ==
    IF i > Len(branch_aliases) THEN found
    ELSE IF Has(q, branch_aliases[i][1]) /\ ~InSeq(branch_aliases[i][2], found)
         THEN BranchesIn(q, Append(found, branch_aliases[i][2]), i + 1)
         ELSE BranchesIn(q, found, i + 1)

\* line 166: result.is_valid_query = result.is_valid()
Validated(built) == [built EXCEPT !.is_valid_query = is_valid(built)]

BuildResult(query, rt, tw, capsters_found, branches_found) ==
    Validated([QueryResult(query) EXCEPT
                  !.report_type = rt.report_type,
                  !.metric = rt.metric,
                  !.metrics = rt.metrics,
                  !.timeframe_str = tw.timeframe_str,
                  !.specific_date = tw.specific_date,
                  !.date_end = tw.date_end,
                  !.specific_dates = tw.specific_dates,
                  !.specific_month = tw.specific_month,
                  !.specific_year = tw.specific_year,
                  !.capsters = capsters_found,
                  !.branches = branches_found])

FallbackOn(query, lower_query, nowYear, capsters) ==
    BuildResult(query, ReportTypeOf(lower_query), TimeWindow(lower_query, nowYear),
                CapstersIn(lower_query, capsters, 1),
                BranchesIn(lower_query, <<>>, 1))

_keyword_fallback(query, nowYear, capsters) ==
    FallbackOn(query, LowerQuery(query), nowYear, capsters)

(***************************************************************************)
(* GeminiService and QueryParserService.parse_query                        *)
(***************************************************************************)
VALID_REPORT_TYPES ==
    {"revenue", "transaction_count", "capster_ranking", "branch_comparison",
     "service_popularity", "profit", "daily_summary", "weekly_summary",
     "monthly_summary", "general"}

\* what generate_content_async can do once it answers: raise, give an empty
\* text, a text without JSON, the JSON object {}, or a JSON object with
\* the keys report_type and timeframe ("absent" when the key is missing)
ModelReplies ==
    {[kind |-> "raises", report_type |-> "absent", timeframe |-> "absent"],
     [kind |-> "empty", report_type |-> "absent", timeframe |-> "absent"],
     [kind |-> "no_json", report_type |-> "absent", timeframe |-> "absent"],
     [kind |-> "json_empty", report_type |-> "absent", timeframe |-> "absent"],
     [kind |-> "json", report_type |-> "profit", timeframe |-> "absent"],
     [kind |-> "json", report_type |-> "laporan", timeframe |-> "hari ini"]}

\* the outcome of an awaited call: an exception, None, or an intent
AiRaised(q) == [state |-> "raised", is_none |-> TRUE, value |-> QueryResult(q)]

AiNone(q) == [state |-> "returned", is_none |-> TRUE, value |-> QueryResult(q)]

AiIntent(r) == [state |-> "returned", is_none |-> FALSE, value |-> r]

AiPending == [state |-> "pending", is_none |-> TRUE, value |-> QueryResult(<<>>)]

\* GeminiService._generate_content: an exception of the model and an empty
\* text both give None
_generate_content(reply) ==
    IF reply.kind \in {"raises", "empty"} THEN "None" ELSE reply.kind

\* GeminiService.parse_query_intent once the model has answered
parse_query_intent(user_query_, reply) ==
    IF _generate_content(reply) = "None" THEN AiNone(user_query_)
    ELSE IF reply.kind \in {"no_json", "json_empty"} THEN AiNone(user_query_)
    ELSE AiIntent(
           [QueryResult(user_query_) EXCEPT
              !.report_type = IF reply.report_type \in VALID_REPORT_TYPES
                              THEN reply.report_type ELSE "general",
              !.metrics = BothMetrics,
              !.timeframe_str = IF reply.timeframe \in VALID_TIMEFRAMES
                                THEN reply.timeframe ELSE "bulan ini",
              !.metric = "pendapatan"])

\* the service objects parse_query can be built with: None, a GeminiService
\* without a model (no API key), a GeminiService with a model, and an
\* object of the same interface whose parse_query_intent raises or returns
\* an intent with no field set
Services == {"None", "no_model", "gemini", "other"}

is_available(service) == service \in {"gemini", "other"}

AiOutcomes(service, user_query_) ==
    IF service = "gemini"
    THEN { parse_query_intent(user_query_, reply) : reply \in ModelReplies }
    ELSE { AiRaised(user_query_), AiNone(user_query_),
           AiIntent(QueryResult(user_query_)) }

NotParsed == [via |-> "none", raised |-> FALSE, value |-> QueryResult(<<>>)]

\* lines 59-62: the keyword fallback
FallbackReturn(user_query_, nowYear, capsters) ==
    [via |-> "fallback", raised |-> FALSE,
     value |-> _keyword_fallback(user_query_, nowYear, capsters)]

\* parse_query without the handler of line 56 and without the test of
\* line 51: an exception leaves the coroutine, every intent is returned
ParseQueryTrusting(outcome, user_query_, nowYear, capsters) ==
    IF outcome.state = "raised"
    THEN [via |-> "none", raised |-> TRUE, value |-> QueryResult(<<>>)]
    ELSE IF ~outcome.is_none
    THEN [via |-> "ai", raised |-> FALSE, value |-> outcome.value]
    ELSE FallbackReturn(user_query_, nowYear, capsters)

\* lines 47-62 after the await: the AI intent is returned when it is not
\* None and valid; None, an invalid intent and an exception fall through to
\* the keyword fallback
ParseQueryAfter(outcome, user_query_, nowYear, capsters) ==
    IF /\ outcome.state = "returned"
       /\ ~outcome.is_none
       /\ is_valid(outcome.value)
    THEN [via |-> "ai", raised |-> FALSE, value |-> outcome.value]
    ELSE FallbackReturn(user_query_, nowYear, capsters)

QueryIdle ==
    /\ gemini_service = "None"
    /\ pq = "idle"
    /\ ai = AiPending
    /\ parsed = NotParsed
    /\ hq = "idle"
    /\ trace = <<>>
    /\ sent = "none"

\* process_query lines 50-57: the "thinking" message is sent and parse_query
\* is called
ProcessQueryBegin ==
    /\ hq = "idle"
    /\ hq' = "parsing"
    /\ trace' = Append(trace, "parse")
    /\ UNCHANGED <<gemini_service, pq, ai, parsed, sent>>
    /\ UNCHANGED <<parserVars, cacheVars, reportVars, weekVars, authVars, branchVars>>

\* line 46: without a service, or with one that is not available, the
\* fallback is taken at once; otherwise line 48 awaits the AI parser
ParseQueryBegin ==
    /\ hq = "parsing"
    /\ pq = "idle"
    /\ IF gemini_service # "None" /\ is_available(gemini_service)
       THEN /\ pq' = "awaiting_ai"
            /\ UNCHANGED parsed
       ELSE /\ pq' = "done"
            /\ parsed' = FallbackReturn(user_query, now_year, capster_list)
    /\ UNCHANGED <<gemini_service, ai, hq, trace, sent>>
    /\ UNCHANGED <<parserVars, cacheVars, reportVars, weekVars, authVars, branchVars>>

\* the awaited call completes
AiAnswers(outcome) ==
    /\ pq = "awaiting_ai"
    /\ ai = AiPending
    /\ ai' = outcome
    /\ UNCHANGED <<gemini_service, pq, parsed, hq, trace, sent>>
    /\ UNCHANGED <<parserVars, cacheVars, reportVars, weekVars, authVars, branchVars>>

\* the coroutine is resumed with the outcome and runs to its return
ParseQueryResume ==
    /\ pq = "awaiting_ai"
    /\ ai # AiPending
    /\ parsed' = ParseQueryAfter(ai, user_query, now_year, capster_list)
    /\ pq' = "done"
    /\ UNCHANGED <<gemini_service, ai, hq, trace, sent>>
    /\ UNCHANGED <<parserVars, cacheVars, reportVars, weekVars, authVars, branchVars>>

\* process_query resumed without its await of parse_query having returned
ParseNotAwaited(position) == TRUE

\* line 57: process_query goes on when the awaited parse_query has returned
ParseReturned(position) == position = "done"

\* what generate_report_from_query can give process_query: an exception, an
\* empty text (no rows in the period) or the text of the report
RetrieveOutcomes == {"raises", "empty", "data"}

\* lines 60-89: the validity test, then generate_report_from_query, which
\* loads the years through the transaction cache and aggregates the rows;
\* the handler runs from the return of parse_query to its next await
\* without suspension
ProcessQueryRetrieve(outcome) ==
    /\ hq = "parsing"
    /\ ParseReturned(pq)
    /\ IF ~is_valid(parsed.value)
       THEN /\ sent' = "not_understood"
            /\ hq' = "ended"
            /\ UNCHANGED trace
       ELSE IF outcome = "raises"
       THEN /\ sent' = "retrieve_error"
            /\ hq' = "ended"
            /\ trace' = Append(trace, "fetch")
       ELSE IF outcome = "empty"
       THEN /\ sent' = "no_data"
            /\ hq' = "ended"
            /\ trace' = trace \o <<"fetch", "aggregate">>
       ELSE /\ hq' = "generating"
            /\ trace' = trace \o <<"fetch", "aggregate">>
            /\ UNCHANGED sent
    /\ UNCHANGED <<gemini_service, pq, ai, parsed>>
    /\ UNCHANGED <<parserVars, cacheVars, reportVars, weekVars, authVars, branchVars>>

\* lines 91-117: the response is generated (by Gemini or from the raw data
\* context) and edited into the message
ProcessQueryRespond ==
    /\ hq = "generating"
    /\ hq' = "ended"
    /\ sent' = "report"
    /\ UNCHANGED <<gemini_service, pq, ai, parsed, trace>>
    /\ UNCHANGED <<parserVars, cacheVars, reportVars, weekVars, authVars, branchVars>>

(***************************************************************************)
(* The calendar of datetime: ordinals and weekdays.                        *)
(***************************************************************************)
RECURSIVE DaysBeforeMonth(_, _)
DaysBeforeMonth(y, m) ==
    IF m = 1 THEN 0 ELSE DaysBeforeMonth(y, m - 1) + DaysInMonth(y, m - 1)

\* the days of the years 1 .. y
DaysOfYears(y) == y * 365 + y \div 4 - y \div 100 + y \div 400

\* date.toordinal(): 1 January of year 1 is day 1
toordinal(d) == DaysOfYears(d[1] - 1) + DaysBeforeMonth(d[1], d[2]) + d[3]

\* date.weekday(): Monday is 0, Sunday is 6
weekday(d) == (toordinal(d) + 6) % 7

\* d + timedelta(days=1) and d - timedelta(days=1)
NextDay(d) ==
    IF d[3] < DaysInMonth(d[1], d[2]) THEN <<d[1], d[2], d[3] + 1>>
    ELSE IF d[2] < 12 THEN <<d[1], d[2] + 1, 1>>
    ELSE <<d[1] + 1, 1, 1>>

PrevDay(d) ==
    IF d[3] > 1 THEN <<d[1], d[2], d[3] - 1>>
    ELSE IF d[2] > 1 THEN <<d[1], d[2] - 1, DaysInMonth(d[1], d[2] - 1)>>
    ELSE <<d[1] - 1, 12, 31>>

RECURSIVE AddDays(_, _)
AddDays(d, n) ==
    IF n = 0 THEN d
    ELSE IF n > 0 THEN AddDays(NextDay(d), n - 1)
    ELSE AddDays(PrevDay(d), n + 1)

(***************************************************************************)
(* The ledger and the profit model.  A row of the ledger is a transaction: *)
(* its date, the capster and the branch it was recorded under, its price.  *)
(* BRANCHES is the configuration of constants.py; a commission rate is     *)
(* written in percent (0.5 is 50), and prices are multiples of 100, so     *)
(* that revenue * commission_rate is the integer it is in the program.     *)
(***************************************************************************)
BRANCHES ==
    [cabang_a |->
        [name |-> "Cabang Denailla", short |-> "Cabang A",
         commission_rate |-> 0,
         operational_cost |-> <<520000, 400000, 15000, 2500000>>],
     cabang_b |->
        [name |-> "Cabang Sumput", short |-> "Cabang B",
         commission_rate |-> 50,
         operational_cost |-> <<792000, 350000, 30000, 0>>]]

\* sum(costs_config.values())
RECURSIVE SumSeq(_)
SumSeq(s) == IF s = <<>> THEN 0 ELSE Head(s) + SumSeq(Tail(s))

\* df['Price'].sum()
RECURSIVE SumPrice(_)
SumPrice(rows) ==
    IF rows = {} THEN 0
    ELSE LET r == CHOOSE x \in rows : TRUE IN r.price + SumPrice(rows \ {r})

\* a commission that is never charged
CommissionCostNone(revenue, commission_rate) == 0

\* line 685: commission_cost = revenue * commission_rate
CommissionCost(revenue, commission_rate) == (revenue * commission_rate) \div 100

\* lines 686-695: the figures of one category
ProfitRow(revenue, fixed_costs, commission_cost) ==
    [Revenue |-> revenue,
     FixedCost |-> fixed_costs,
     CommissionCost |-> commission_cost,
     OperationalCost |-> fixed_costs + commission_cost,
     NetProfit |-> revenue - (fixed_costs + commission_cost)]

\* lines 679-695: one branch of the loop over BRANCHES
BranchRevenue(monthly_df, branch_config) ==
    SumPrice({r \in monthly_df : r.branch = branch_config.short})

BranchProfit(monthly_df, branch_config) ==
    ProfitRow(BranchRevenue(monthly_df, branch_config),
              SumSeq(branch_config.operational_cost),
              CommissionCost(BranchRevenue(monthly_df, branch_config),
                             branch_config.commission_rate))

BranchIds == DOMAIN BRANCHES

BranchOfShort(short) == CHOOSE b \in BranchIds : BRANCHES[b].short = short

BranchShorts == { BRANCHES[b].short : b \in BranchIds }

\* the sum of one figure over all branches (lines 697-699)
RECURSIVE SumOver(_, _, _)
SumOver(monthly_df, field, bs) ==
    IF bs = {} THEN 0
    ELSE LET b == CHOOSE x \in bs : TRUE
         IN BranchProfit(monthly_df, BRANCHES[b])[field]
            + SumOver(monthly_df, field, bs \ {b})

\* lines 701-708: the row 'Overall'
OverallProfit(monthly_df) ==
    ProfitRow(SumOver(monthly_df, "Revenue", BranchIds),
              SumOver(monthly_df, "FixedCost", BranchIds),
              SumOver(monthly_df, "CommissionCost", BranchIds))

\* pd.DataFrame(): the frame without rows
EmptyFrame == <<>>

\* line 664: the rows of the year's table dated in the month
MonthlyRows(rows, year, month) ==
    {r \in rows : r.date[1] = year /\ r.date[2] = month}

ProfitFrame(monthly_df) ==
    [c \in BranchShorts \cup {"Overall"} |->
        IF c = "Overall" THEN OverallProfit(monthly_df)
        ELSE BranchProfit(monthly_df, BRANCHES[BranchOfShort(c)])]

\* a month without rows gives the empty frame (lines 666-668), any other
\* month one row for each branch and the row 'Overall'
generate_monthly_profit_dataframe(rows, year, month) ==
    IF MonthlyRows(rows, year, month) = {} THEN EmptyFrame
    ELSE ProfitFrame(MonthlyRows(rows, year, month))

(***************************************************************************)
(* The capsters and their aliases.                                         *)
(***************************************************************************)
\* Capster.all_names: the name, and the alias when it is another name
all_names(c) ==
    IF c.alias # "" /\ Lower(c.alias) # Lower(c.name)
    THEN <<c.name, c.alias>>
    ELSE <<c.name>>

LowerAll(names) == [i \in 1..Len(names) |-> Lower(names[i])]

SeqRange(s) == { s[i] : i \in 1..Len(s) }

\* {}: a map without keys
EmptyMap == [n \in {} |-> <<>>]

\* lines 87-88: every name of the capster is given the list of all of them;
\* a key that is already there is overwritten
AliasMapPut(alias_map, all_lower) ==
    [n \in DOMAIN alias_map \cup SeqRange(all_lower) |->
        IF n \in SeqRange(all_lower) THEN all_lower ELSE alias_map[n]]

RECURSIVE get_name_alias_map(_)
get_name_alias_map(capsters) ==
    IF capsters = <<>> THEN EmptyMap
    ELSE AliasMapPut(get_name_alias_map(SubSeq(capsters, 1, Len(capsters) - 1)),
                     LowerAll(all_names(capsters[Len(capsters)])))

\* alias_map.get(name_lower, [])
AliasesOf(alias_map, name_lower) ==
    IF name_lower \in DOMAIN alias_map THEN SeqRange(alias_map[name_lower]) ELSE {}

\* lines 898-906: the lower-case names the capster filter lets through
CapsterFilter(capsters, alias_map) ==
    UNION { {Lower(capsters[i])} \cup AliasesOf(alias_map, Lower(capsters[i])) :
            i \in 1..Len(capsters) }

(***************************************************************************)
(* generate_report_from_query.                                             *)
(***************************************************************************)
\* lines 845-855: the years whose tables are loaded
years_needed(q, now_) ==
    IF q.specific_dates # <<>>
    THEN { q.specific_dates[i][1] : i \in 1..Len(q.specific_dates) }
    ELSE IF q.specific_date # NoDate
    THEN {q.specific_date[1]}
         \cup (IF q.date_end # NoDate THEN {q.date_end[1]} ELSE {})
    ELSE IF q.specific_year # 0 THEN {q.specific_year}
    ELSE {now_[1]}

\* lines 858-868: the rows of the tables of these years
LoadedRows(rows, years) == {r \in rows : r.date[1] \in years}

\* _get_week_range: the Monday of the week of now
MondayOf(now_) == AddDays(now_, 0 - weekday(now_))

\* the last day of the month before that of now (lines 736-737)
LastMonthOf(now_) == PrevDay(<<now_[1], now_[2], 1>>)

\* _filter_by_timeframe, for one row.  Date >= now - 90 days compares
\* the times of day as well when the row is dated exactly 90 days before
\* now; the ledger holds no such row.
InTimeframe(date, timeframe_str, now_) ==
    CASE timeframe_str = "minggu ini" ->
            /\ DateLE(MondayOf(now_), date)
            /\ DateLE(date, AddDays(MondayOf(now_), 6))
      [] timeframe_str = "bulan ini" ->
            date[1] = now_[1] /\ date[2] = now_[2]
      [] timeframe_str = "hari ini" -> date = now_
      [] timeframe_str = "kemarin" -> date = PrevDay(now_)
      [] timeframe_str = "bulan lalu" ->
            /\ date[1] = LastMonthOf(now_)[1]
            /\ date[2] = LastMonthOf(now_)[2]
      [] timeframe_str = "minggu lalu" ->
            /\ DateLE(AddDays(MondayOf(now_), 0 - 7), date)
            /\ DateLT(date, MondayOf(now_))
      [] timeframe_str = "3 bulan terakhir" ->
            toordinal(date) > toordinal(now_) - 90
      [] OTHER -> TRUE

\* query_result.timeframe_str or 'bulan ini'
TimeframeOr(q) == IF q.timeframe_str = "None" THEN "bulan ini" ELSE q.timeframe_str

\* lines 875-895: the time filter, for one row
InTimeFilter(date, q, now_) ==
    IF q.specific_dates # <<>> THEN InSeq(date, q.specific_dates)
    ELSE IF q.specific_date # NoDate /\ q.date_end # NoDate
    THEN DateLE(q.specific_date, date) /\ DateLE(date, q.date_end)
    ELSE IF q.specific_date # NoDate THEN date = q.specific_date
    ELSE IF q.specific_month # 0 /\ q.specific_year # 0
    THEN date[1] = q.specific_year /\ date[2] = q.specific_month
    ELSE InTimeframe(date, TimeframeOr(q), now_)

\* lines 897-907: the capster filter, for one row
InCapsterFilter(r, q, alias_map) ==
    q.capsters # <<>> => Lower(r.capster) \in CapsterFilter(q.capsters, alias_map)

\* lines 909-912: the branch filter, for one row
InBranchFilter(r, q) ==
    q.branches # <<>> => Lower(r.branch) \in SeqRange(LowerAll(q.branches))

\* the rows left after the three filters
FilteredRows(df, q, alias_map, now_) ==
    {r \in df : /\ InTimeFilter(r.date, q, now_)
                /\ InCapsterFilter(r, q, alias_map)
                /\ InBranchFilter(r, q)}

NoProfit == [called |-> FALSE, year |-> 0, month |-> 0, frame |-> EmptyFrame]

\* _build_profit_context(year, month, timeframe_str)
_build_profit_context(rows, year, month) ==
    [called |-> TRUE, year |-> year, month |-> month,
     frame |-> generate_monthly_profit_dataframe(rows, year, month)]

ReportRet(outcome, years, df, profit) ==
    [outcome |-> outcome, years |-> years, rows |-> df, profit |-> profit]

\* lines 950-958.  The name year of line 957 is bound nowhere in the
\* function or the module: every profit report but that of 'bulan lalu'
\* ends in a NameError.
ProfitPart(rows, q, years, df, now_) ==
    IF TimeframeOr(q) = "bulan lalu"
    THEN ReportRet("context", years, df,
                   _build_profit_context(rows, LastMonthOf(now_)[1],
                                         LastMonthOf(now_)[2]))
    ELSE ReportRet("raises", years, df, NoProfit)

\* lines 914-968: no row left gives 'Data tidak ditemukan', any other
\* selection the context string
ContextOf(rows, q, years, df, now_) ==
    IF df = {} THEN ReportRet("not_found", years, df, NoProfit)
    ELSE IF q.report_type = "profit" THEN ProfitPart(rows, q, years, df, now_)
    ELSE ReportRet("context", years, df, NoProfit)

\* lines 864-869: None when no table of the years needed has a row
FromYears(rows, q, alias_map, years, now_) ==
    IF LoadedRows(rows, years) = {} THEN ReportRet("None", years, {}, NoProfit)
    ELSE ContextOf(rows, q, years,
                   FilteredRows(LoadedRows(rows, years), q, alias_map, now_), now_)

generate_report_from_query(rows, q, alias_map, now_) ==
    FromYears(rows, q, alias_map, years_needed(q, now_), now_)

\* the transactions the worksheets may hold
\* row 8 bears the label of a branch that is no longer in the branch
\* configuration
RowPool ==
    { [id |-> 1, date |-> <<2026, 3, 10>>, capster |-> "Zidan",
       branch |-> "Cabang A", price |-> 30000],
      [id |-> 2, date |-> <<2026, 3, 12>>, capster |-> "timingemma",
       branch |-> "Cabang B", price |-> 40000],
      [id |-> 3, date |-> <<2025, 12, 31>>, capster |-> "Emma",
       branch |-> "Cabang A", price |-> 50000],
      [id |-> 4, date |-> <<2025, 6, 15>>, capster |-> "Budi",
       branch |-> "Cabang B", price |-> 20000],
      [id |-> 5, date |-> <<2024, 12, 20>>, capster |-> "timingemma",
       branch |-> "Cabang A", price |-> 60000],
      [id |-> 6, date |-> <<2026, 1, 1>>, capster |-> "Emma",
       branch |-> "Cabang B", price |-> 10000],
      [id |-> 7, date |-> <<2026, 3, 11>>, capster |-> "budz",
       branch |-> "Cabang A", price |-> 25000],
      [id |-> 8, date |-> <<2026, 3, 10>>, capster |-> "Emma",
       branch |-> "Cabang C", price |-> 15000] }

\* the days on which a report is asked for
Todays == { <<2026, 1, 1>>, <<2026, 1, 15>>, <<2026, 3, 12>> }

NoReportCall == [fn |-> "none"]

\* the CapsterList worksheet when the bot starts
CapsterSheet0 ==
    << [name |-> "Zidan", telegram_id |-> 1, alias |-> "timingemma"],
       [name |-> "Emma", telegram_id |-> 2, alias |-> ""] >>

\* the capsters the owner may add while the bot runs
NewCapsters == { [name |-> "Budi", telegram_id |-> 3, alias |-> "budz"] }

ReportIdle ==
    /\ ledger = {}
    /\ today = <<2026, 1, 1>>
    /\ report_call = NoReportCall
    /\ report_ret = <<>>
    /\ capster_sheet = CapsterSheet0
    /\ capster_alias_map = get_name_alias_map(CapsterSheet0)

\* the months a profit frame is asked for
ProfitYears == {2025, 2026}

ProfitMonths == {1, 3, 6, 12}

GenerateMonthlyProfit(year, month) ==
    /\ report_call.fn = "none"
    /\ report_call' = [fn |-> "generate_monthly_profit_dataframe",
                       year |-> year, month |-> month]
    /\ report_ret' = generate_monthly_profit_dataframe(ledger, year, month)
    /\ UNCHANGED <<ledger, today, capster_sheet, capster_alias_map>>
    /\ UNCHANGED <<parserVars, cacheVars, queryVars, weekVars, authVars, branchVars>>

\* lines 139-146 of handlers/capster.py: the capster is appended to the
\* CapsterList worksheet (a Telegram ID that is already listed is refused,
\* lines 112-120) and the parser is told the new names; the alias map of
\* bot.py lines 89-100 is not built again
AddCapster(c) ==
    /\ \A i \in 1..Len(capster_sheet) : capster_sheet[i].telegram_id # c.telegram_id
    /\ capster_sheet' = Append(capster_sheet, c)
    /\ UNCHANGED <<ledger, today, report_call, report_ret, capster_alias_map>>
    /\ UNCHANGED <<parserVars, cacheVars, queryVars, weekVars, authVars, branchVars>>

\* the time windows of the intents
RelativeWindows ==
    { [NoWindow EXCEPT !.timeframe_str = rel] :
        rel \in {"hari ini", "kemarin", "minggu ini", "minggu lalu",
                 "bulan ini", "bulan lalu", "3 bulan terakhir"} }

MonthWindows ==
    { WindowOf(<<>>, NoRange, NoDate, m, "bulan ini") :
        m \in { <<12, 2025>>, <<3, 2026>> } }

RangeWindows ==
    { WindowOf(<<>>, rg, NoDate, NoMonth, "bulan ini") :
        rg \in { << <<2024, 12, 1>>, <<2026, 1, 31>> >>,
                 << <<2025, 12, 1>>, <<2026, 3, 31>> >> } }

DateWindows ==
    { WindowOf(<<>>, NoRange, <<2026, 3, 10>>, NoMonth, "bulan ini"),
      WindowOf(<< <<2025, 12, 31>>, <<2026, 1, 1>> >>, NoRange, NoDate, NoMonth,
               "bulan ini") }

Windows == RelativeWindows \cup MonthWindows \cup RangeWindows \cup DateWindows

\* the intent parse_query hands to generate_report_from_query
Intent(report_type, tw, capsters) ==
    [QueryResult(<<>>) EXCEPT
        !.report_type = report_type,
        !.timeframe_str = tw.timeframe_str,
        !.specific_date = tw.specific_date,
        !.date_end = tw.date_end,
        !.specific_dates = tw.specific_dates,
        !.specific_month = tw.specific_month,
        !.specific_year = tw.specific_year,
        !.capsters = capsters]

\* the names the parser knows: those of the CapsterList worksheet
KnownNames(capsters) ==
    UNION { SeqRange(all_names(capsters[i])) : i \in 1..Len(capsters) }

\* texts that name a branch, by its name or by an alias of the fixed table
BranchTexts ==
    { <<"mojosari">>, <<"cabang", "a">>, <<"sumput">>, <<"cabang", "denailla">> }

Intents(capsters) ==
    { Intent("general", tw, <<>>) : tw \in Windows }
    \cup { Intent("profit", tw, <<>>) :
             tw \in MonthWindows \cup
                    { [NoWindow EXCEPT !.timeframe_str = rel] :
                        rel \in {"bulan ini", "bulan lalu"} } }
    \cup { Intent("general", tw, <<n>>) :
             tw \in RangeWindows, n \in KnownNames(capsters) }
    \cup { [Intent("general", tw, <<>>) EXCEPT !.branches = BranchesIn(text, <<>>, 1)] :
             tw \in RangeWindows, text \in BranchTexts }

\* the labels of the column Capster in the order of the group keys
\* (groupby sorts the keys as strings)
CapsterKeys == <<"Budi", "Emma", "Zidan", "budz", "timingemma">>

\* the rows of the frame with label c in the column Capster
CapsterRows(df, c) == {r \in df : r.capster = c}

\* lines 755-758, groupby('Capster').agg(revenue = sum of Price, count =
\* count of Price): one group for each label of the frame, from key k on
RECURSIVE GroupByCapster(_, _)
GroupByCapster(df, k) ==
    IF k > Len(CapsterKeys) THEN <<>>
    ELSE IF CapsterRows(df, CapsterKeys[k]) = {} THEN GroupByCapster(df, k + 1)
    ELSE << [capster |-> CapsterKeys[k],
             revenue |-> SumPrice(CapsterRows(df, CapsterKeys[k])),
             count |-> Cardinality(CapsterRows(df, CapsterKeys[k]))] >>
         \o GroupByCapster(df, k + 1)

\* sort_values with ascending=True: a group goes before the groups of
\* greater revenue
RevenueAscending(a, b) == a.revenue < b.revenue

\* line 758, sort_values('revenue', ascending=False): a group goes before
\* the groups of smaller revenue
RevenueDescending(a, b) == a.revenue > b.revenue

\* group g put into the sorted groups s, after the groups it does not go
\* before (groups of equal revenue keep the order of their keys)
RECURSIVE InsertGroup(_, _)
InsertGroup(g, s) ==
    IF s = <<>> THEN <<g>>
    ELSE IF RevenueDescending(g, Head(s)) THEN <<g>> \o s
    ELSE <<Head(s)>> \o InsertGroup(g, Tail(s))

RECURSIVE SortGroups(_)
SortGroups(s) ==
    IF s = <<>> THEN <<>>
    ELSE InsertGroup(s[Len(s)], SortGroups(SubSeq(s, 1, Len(s) - 1)))

\* DataFrame.head(limit) for limit >= 0
HeadOf(s, limit) == SubSeq(s, 1, IF limit < Len(s) THEN limit ELSE Len(s))

\* lines 751-763: no ranking for the empty frame, else the first `limit`
\* groups by falling revenue, one line for each
_build_capster_ranking(df, limit) ==
    IF df = {} THEN <<>>
    ELSE HeadOf(SortGroups(GroupByCapster(df, 1)), limit)

\* the limits of a ranking: QueryResult.limit (default 10) and smaller ones
Limits == {1, 2, 10}

\* _build_capster_ranking on the rows that the filters of
\* generate_report_from_query left
BuildCapsterRanking(limit) ==
    /\ report_call.fn = "none"
    /\ report_call' = [fn |-> "_build_capster_ranking", limit |-> limit]
    /\ report_ret' = _build_capster_ranking(ledger, limit)
    /\ UNCHANGED <<ledger, today, capster_sheet, capster_alias_map>>
    /\ UNCHANGED <<parserVars, cacheVars, queryVars, weekVars, authVars, branchVars>>

\* the edits of the edit-capster conversation: the id of the record, the
\* new name and the new alias ("None" where the step was skipped)
CapsterEdits == { [telegram_id |-> 2, name |-> "None", alias |-> "budz"] }

\* SheetsService.update_capster, lines 351-358: the first record of the id
\* gets the new name and the new alias, where given
RECURSIVE update_capster(_, _)
update_capster(capsters, e) ==
    IF capsters = <<>> THEN <<>>
    ELSE IF Head(capsters).telegram_id = e.telegram_id
    THEN << [telegram_id |-> e.telegram_id,
             name |-> IF e.name = "None" THEN Head(capsters).name ELSE e.name,
             alias |-> IF e.alias = "None" THEN Head(capsters).alias ELSE e.alias] >>
         \o Tail(capsters)
    ELSE <<Head(capsters)>> \o update_capster(Tail(capsters), e)

\* edit_capster_alias, lines 242-275: update_capster writes the record;
\* the handler then extends the parser's capster list (lines 256-260) and
\* leaves the alias map of the parser and of the report service as it was
UpdateCapster(e) ==
    /\ \E i \in 1..Len(capster_sheet) : capster_sheet[i].telegram_id = e.telegram_id
    /\ update_capster(capster_sheet, e) # capster_sheet
    /\ capster_sheet' = update_capster(capster_sheet, e)
    /\ UNCHANGED <<ledger, today, report_call, report_ret, capster_alias_map>>
    /\ UNCHANGED <<parserVars, cacheVars, queryVars, weekVars, authVars, branchVars>>

\* the intent carries the alias map the parser was constructed with
\* (query_parser_service.py lines 53 and 61)
GenerateReportFromQuery(q) ==
    /\ report_call.fn = "none"
    /\ report_call' = [fn |-> "generate_report_from_query", query_result |-> q,
                       capster_sheet |-> capster_sheet]
    /\ report_ret' = generate_report_from_query(ledger, q, capster_alias_map, today)
    /\ UNCHANGED <<ledger, today, capster_sheet, capster_alias_map>>
    /\ UNCHANGED <<parserVars, cacheVars, queryVars, weekVars, authVars, branchVars>>

(***************************************************************************)
(* WeekCalculator.                                                         *)
(***************************************************************************)
NoWeekCall == <<0, 0>>

WeekIdle == week_call = NoWeekCall /\ weeks = <<>>

\* line 25: days_until_monday = (7 - first_day.weekday()) % 7
days_until_monday(first_day) == (7 - weekday(first_day)) % 7

\* lines 26-34: day 1 when it is a Monday, else the next Monday, or again
\* day 1 should that Monday fall in the next month
FirstMondayFrom(first_day, first_monday) ==
    IF days_until_monday(first_day) = 0 /\ weekday(first_day) = 0 THEN first_day
    ELSE IF first_monday[2] # first_day[2] THEN first_day
    ELSE first_monday

get_first_monday_of_month(year, month) ==
    FirstMondayFrom(<<year, month, 1>>,
                    AddDays(<<year, month, 1>>, days_until_monday(<<year, month, 1>>)))

\* lines 64-70: one entry of the list
Week(week_num, current_monday) ==
    [week_num |-> week_num,
     start_date |-> current_monday,
     end_date |-> AddDays(current_monday, 6)]

\* lines 57-82: the loop.  The Monday after a Sunday is at most day 7 of
\* the next month, so the break of lines 79-80 is never taken and the loop
\* ends at line 82, with the first Monday outside the month.
RECURSIVE WeeksFrom(_, _, _)
WeeksFrom(current_monday, month, week_num) ==
    IF current_monday[2] = month
    THEN <<Week(week_num, current_monday)>>
         \o WeeksFrom(AddDays(current_monday, 7), month, week_num + 1)
    ELSE <<>>

get_weeks_in_month(year, month) ==
    WeeksFrom(get_first_monday_of_month(year, month), month, 1)

\* the months whose weeks are asked for
WeekYears == 2020..2028

GetWeeksInMonth(year, month) ==
    /\ week_call = NoWeekCall
    /\ week_call' = <<year, month>>
    /\ weeks' = get_weeks_in_month(year, month)
    /\ UNCHANGED <<parserVars, cacheVars, queryVars, reportVars, authVars, branchVars>>

(***************************************************************************)
(* generate_weekly_breakdown.                                              *)
(***************************************************************************)
\* lines 158-161: the rows of the month inside one week
WeekRows(monthly, week) ==
    {r \in monthly : DateLE(week.start_date, r.date) /\ DateLE(r.date, week.end_date)}

\* lines 153-168: total_month_transactions and total_month_revenue, summed
\* week by week
RECURSIVE SumWeekCounts(_, _)
SumWeekCounts(monthly, ws) ==
    IF ws = <<>> THEN 0
    ELSE Cardinality(WeekRows(monthly, Head(ws))) + SumWeekCounts(monthly, Tail(ws))

RECURSIVE SumWeekRevenue(_, _)
SumWeekRevenue(monthly, ws) ==
    IF ws = <<>> THEN 0
    ELSE SumPrice(WeekRows(monthly, Head(ws))) + SumWeekRevenue(monthly, Tail(ws))

BreakdownOf(monthly, ws) ==
    IF ws = <<>> THEN [outcome |-> "no_weeks"]
    ELSE IF monthly = {} THEN [outcome |-> "no_transactions"]
    ELSE [outcome |-> "report",
          weeks |-> ws,
          total_month_transactions |-> SumWeekCounts(monthly, ws),
          total_month_revenue |-> SumWeekRevenue(monthly, ws)]

generate_weekly_breakdown(rows, year, month) ==
    BreakdownOf(MonthlyRows(rows, year, month), get_weeks_in_month(year, month))

GenerateWeeklyBreakdown(year, month) ==
    /\ report_call.fn = "none"
    /\ report_call' = [fn |-> "generate_weekly_breakdown",
                       year |-> year, month |-> month]
    /\ report_ret' = generate_weekly_breakdown(ledger, year, month)
    /\ UNCHANGED <<ledger, today, capster_sheet, capster_alias_map>>
    /\ UNCHANGED <<parserVars, cacheVars, queryVars, weekVars, authVars, branchVars>>

(***************************************************************************)
(* AuthService.                                                            *)
(***************************************************************************)
NoAuthCall == [op |-> "none"]

\* line 14: _authorized_users = []
AuthIdle == _authorized_users = <<>> /\ auth_call = NoAuthCall

\* Telegram user ids
UserIds == {7, 8, 9}

\* the lists AUTHORIZED_CAPSTERS may hold: settings.py lines 24-29 keep the
\* ids in the order and as often as the environment variable names them
UserLists == UNION { [1..n -> UserIds] : n \in 0..MaxListed }

\* line 33: user_id in cls._authorized_users
is_authorized(user_id) == InSeq(user_id, _authorized_users)

\* list.remove(x): the list without the first x
RECURSIVE list_remove(_, _)
list_remove(s, x) ==
    IF s = <<>> THEN <<>>
    ELSE IF Head(s) = x THEN Tail(s)
    ELSE <<Head(s)>> \o list_remove(Tail(s), x)

\* lines 19-23: authorized_users.copy()
Initialize(authorized_users) ==
    /\ _authorized_users' = authorized_users
    /\ auth_call' = [op |-> "initialize", users |-> authorized_users]
    /\ UNCHANGED <<parserVars, cacheVars, queryVars, reportVars, weekVars, branchVars>>

\* lines 73-79
AddAuthorizedUser(user_id) ==
    /\ Len(_authorized_users) <= MaxListed
    /\ IF ~InSeq(user_id, _authorized_users)
       THEN /\ _authorized_users' = Append(_authorized_users, user_id)
            /\ auth_call' = [op |-> "add_authorized_user", user |-> user_id,
                             ret |-> TRUE]
       ELSE /\ UNCHANGED _authorized_users
            /\ auth_call' = [op |-> "add_authorized_user", user |-> user_id,
                             ret |-> FALSE]
    /\ UNCHANGED <<parserVars, cacheVars, queryVars, reportVars, weekVars, branchVars>>

\* lines 82-88
RemoveAuthorizedUser(user_id) ==
    /\ IF InSeq(user_id, _authorized_users)
       THEN /\ _authorized_users' = list_remove(_authorized_users, user_id)
            /\ auth_call' = [op |-> "remove_authorized_user", user |-> user_id,
                             ret |-> TRUE]
       ELSE /\ UNCHANGED _authorized_users
            /\ auth_call' = [op |-> "remove_authorized_user", user |-> user_id,
                             ret |-> FALSE]
    /\ UNCHANGED <<parserVars, cacheVars, queryVars, reportVars, weekVars, branchVars>>

(***************************************************************************)
(* BranchService: the branch a user works in today.                        *)
(***************************************************************************)
\* no entry for the user in _user_branches
NoSelection == [branch_id |-> "None", date |-> 0]

NoBranchCall == [op |-> "none"]

BranchUsers == {7, 8}

\* the keys of BRANCHES
BranchChoices == BranchIds

BranchIdle ==
    /\ _user_branches = [u \in BranchUsers |-> NoSelection]
    /\ calendar_day = 1
    /\ branch_call = NoBranchCall
    /\ saved = <<>>
    /\ selected = [u \in BranchUsers |-> NoSelection]

\* datetime.now().strftime('%Y-%m-%d'): one string for each calendar day
Today(d) == d

\* set_branch, lines 16-27
SetBranch(user_id, branch_id) ==
    /\ _user_branches' = [_user_branches EXCEPT ![user_id] =
                             [branch_id |-> branch_id, date |-> Today(calendar_day)]]
    /\ selected' = [selected EXCEPT ![user_id] =
                       [branch_id |-> branch_id, date |-> calendar_day]]
    /\ branch_call' = [op |-> "set_branch", user |-> user_id, ret |-> "True",
                       at |-> calendar_day]
    /\ UNCHANGED <<calendar_day, saved>>
    /\ UNCHANGED <<parserVars, cacheVars, queryVars, reportVars, weekVars, authVars>>

\* the test of line 41 left out: a stored selection never expires
ExpiredNever(stored_date, today_) == FALSE

\* line 41: stored_date != today
Expired(stored_date, today_) == stored_date # today_

\* get_branch, lines 30-49: what it returns and what it leaves stored
BranchReturned(branches, user_id, today_) ==
    IF branches[user_id] = NoSelection THEN "None"
    ELSE IF Expired(branches[user_id].date, today_) THEN "None"
    ELSE branches[user_id].branch_id

BranchesAfterGet(branches, user_id, today_) ==
    IF branches[user_id] # NoSelection /\ Expired(branches[user_id].date, today_)
    THEN [branches EXCEPT ![user_id] = NoSelection]
    ELSE branches

GetBranch(user_id) ==
    /\ _user_branches' = BranchesAfterGet(_user_branches, user_id, Today(calendar_day))
    /\ branch_call' = [op |-> "get_branch", user |-> user_id,
                       ret |-> BranchReturned(_user_branches, user_id, Today(calendar_day)),
                       at |-> calendar_day]
    /\ UNCHANGED <<calendar_day, saved, selected>>
    /\ UNCHANGED <<parserVars, cacheVars, queryVars, reportVars, weekVars, authVars>>

\* clear_branch, lines 57-64
ClearBranch(user_id) ==
    /\ _user_branches' = [_user_branches EXCEPT ![user_id] = NoSelection]
    /\ selected' = [selected EXCEPT ![user_id] = NoSelection]
    /\ branch_call' = [op |-> "clear_branch", user |-> user_id,
                       ret |-> IF _user_branches[user_id] # NoSelection
                               THEN "True" ELSE "False",
                       at |-> calendar_day]
    /\ UNCHANGED <<calendar_day, saved>>
    /\ UNCHANGED <<parserVars, cacheVars, queryVars, reportVars, weekVars, authVars>>

\* midnight passes
DayChanges ==
    /\ calendar_day < MaxDay
    /\ calendar_day' = calendar_day + 1
    /\ UNCHANGED <<_user_branches, branch_call, saved, selected>>
    /\ UNCHANGED <<parserVars, cacheVars, queryVars, reportVars, weekVars, authVars>>

\* handle_payment_selection, transaction.py lines 51-120: an invalid
\* service or payment ends the handler before the branch is read (lines
\* 64-67); without a branch of today nothing is saved (lines 70-73); else
\* the transaction is built with the branch and add_transaction appends
\* it, unless the write fails (lines 100-106)
HandlePaymentSelection(user_id, valid, success) ==
    /\ Len(saved) < MaxSaved
    /\ IF ~valid
       THEN /\ branch_call' = [op |-> "handle_payment_selection", user |-> user_id,
                               ret |-> "invalid", at |-> calendar_day]
            /\ UNCHANGED <<_user_branches, saved>>
       ELSE /\ _user_branches' =
                   BranchesAfterGet(_user_branches, user_id, Today(calendar_day))
            /\ branch_call' =
                   [op |-> "handle_payment_selection", user |-> user_id,
                    ret |-> BranchReturned(_user_branches, user_id, Today(calendar_day)),
                    at |-> calendar_day]
            /\ saved' =
                   IF BranchReturned(_user_branches, user_id, Today(calendar_day)) # "None"
                      /\ success
                   THEN Append(saved,
                               [user |-> user_id,
                                branch_id |-> BranchReturned(_user_branches, user_id,
                                                            Today(calendar_day)),
                                date |-> calendar_day,
                                selection |-> selected[user_id]])
                   ELSE saved
    /\ UNCHANGED <<calendar_day, selected>>
    /\ UNCHANGED <<parserVars, cacheVars, queryVars, reportVars, weekVars, authVars>>

(***************************************************************************)
(* SheetsService: the monthly worksheets and the year's table.             *)
(***************************************************************************)
Years == {2025, 2026}

\* range(1, 13)
Months == 1..12

\* the months transactions are recorded in
TxMonths == {3}

\* the rows a worksheet may hold
Rows == {"row1"}

EmptySheet == [y \in Years |-> [m \in Months |-> {}]]

\* get_transactions_by_month: the rows of the worksheet; a missing worksheet
\* and a read that raises (m \in errs) both give an empty DataFrame
get_transactions_by_month(sh, year, month, errs) ==
    IF month \in errs THEN {} ELSE sh[year][month]

\* get_transactions_dataframe: the concatenation of the twelve months
get_transactions_dataframe(sh, year, errs) ==
    [m \in Months |-> get_transactions_by_month(sh, year, m, errs)]

IsEmptyFrame(rows) == \A m \in Months : rows[m] = {}

(***************************************************************************)
(* ReportService._get_or_fetch_transactions.  A table is the DataFrame     *)
(* object of one fetch: id numbers the fetch, at is the `now` of the call  *)
(* that fetched it (both kept for the claims), rows are its contents.      *)
(* An absent dictionary key is NoTable, NoTimestamp.                       *)
(*                                                                         *)
(* The handlers and the scheduled job that reach the report service are    *)
(* coroutines of one asyncio event loop (Application.run_polling), and     *)
(* _get_or_fetch_transactions is a plain function without an await: a call *)
(* that has started holds the loop until it returns.  req[r] is the call   *)
(* of request r, one step per statement that reads or writes the cache.    *)
(***************************************************************************)
\* timedelta(minutes=5)
CACHE_DURATION == 5

Requests == {"r1", "r2"}

NoTable == [id |-> 0, at |-> 0, rows |-> [m \in Months |-> {}]]

NoTimestamp == -1

IdleCall ==
    [pc |-> "idle", year |-> 0, now |-> 0, found |-> "none", df |-> NoTable,
     read_error |-> FALSE, store_empty |-> FALSE]

NoCall ==
    [year |-> 0, at |-> 0, outcome |-> "none", found |-> "none",
     table |-> NoTable, read_error |-> FALSE, fetch_raised |-> FALSE,
     store_empty |-> TRUE]

CacheIdle ==
    /\ now = 0
    /\ sheet = EmptySheet
    /\ _transactions_cache = [y \in Years |-> NoTable]
    /\ _cache_timestamp = [y \in Years |-> NoTimestamp]
    /\ fetches = 0
    /\ req = [r \in Requests |-> IdleCall]
    /\ last = NoCall

\* the requests were handled by threads: any of them runs at any time
EventLoopThreaded(r) == TRUE

\* request r may take a step: no other call is between its first and its
\* last statement
EventLoopRuns(r) == \A o \in Requests \ {r} : req[o].pc = "idle"

EventLoopFree == \A r \in Requests : req[r].pc = "idle"

\* the test of lines 71-72 with the entry always taken for expired
CacheValidNever(cache, stamps, year, t) == FALSE

\* the test of lines 71-72 with <= for <
CacheValidInclusive(cache, stamps, year, t) ==
    /\ cache[year] # NoTable
    /\ stamps[year] # NoTimestamp
    /\ t - stamps[year] <= CACHE_DURATION

\* lines 71-72: both keys present and now - timestamp < CACHE_DURATION
CacheValid(cache, stamps, year, t) ==
    /\ cache[year] # NoTable
    /\ stamps[year] # NoTimestamp
    /\ t - stamps[year] < CACHE_DURATION

\* the result of a fetch that raised, had the table still stored for the
\* year been served instead
RaisedServesStale(cache, year, t, found, read_error, store_empty) ==
    [year |-> year, at |-> t, outcome |-> "fetched", found |-> found,
     table |-> cache[year], read_error |-> read_error, fetch_raised |-> TRUE,
     store_empty |-> store_empty]

\* line 78 raised: the exception leaves the call, nothing is returned
Raised(cache, year, t, found, read_error, store_empty) ==
    [year |-> year, at |-> t, outcome |-> "raised", found |-> found,
     table |-> NoTable, read_error |-> read_error, fetch_raised |-> TRUE,
     store_empty |-> store_empty]

\* lines 68-77: now is read and the entry of the year is tested; a valid
\* entry is returned at once (line 74)
Begin(r, year) ==
    /\ req[r].pc = "idle"
    /\ EventLoopRuns(r)
    /\ IF CacheValid(_transactions_cache, _cache_timestamp, year, now)
       THEN /\ last' = [year |-> year, at |-> now, outcome |-> "hit",
                        found |-> "fresh",
                        table |-> _transactions_cache[year],
                        read_error |-> FALSE, fetch_raised |-> FALSE,
                        store_empty |-> FALSE]
            /\ UNCHANGED req
       ELSE /\ fetches < MaxFetches
            /\ req' = [req EXCEPT ![r] =
                          [pc |-> "fetch", year |-> year, now |-> now,
                           found |-> IF _transactions_cache[year] = NoTable
                                     THEN "missing" ELSE "expired",
                           df |-> NoTable, read_error |-> FALSE,
                           store_empty |-> FALSE]]
            /\ UNCHANGED last
    /\ UNCHANGED <<now, sheet, _transactions_cache, _cache_timestamp, fetches>>

\* line 78: df = self.sheets.get_transactions_dataframe(year=year).  errs are
\* the months whose worksheet read raises during this fetch; raises says
\* that an exception leaves get_transactions_dataframe itself (one that the
\* handler of get_transactions_by_month does not catch).
Fetch(r, errs, raises) ==
    /\ req[r].pc = "fetch"
    /\ EventLoopRuns(r)
    /\ fetches' = fetches + 1
    /\ IF raises
       THEN /\ last' = Raised(_transactions_cache, req[r].year, req[r].now,
                              req[r].found, errs # {},
                              IsEmptyFrame(sheet[req[r].year]))
            /\ req' = [req EXCEPT ![r] = IdleCall]
       ELSE /\ req' = [req EXCEPT ![r].pc = "store_table",
                                  ![r].df =
                                     [id |-> fetches + 1, at |-> req[r].now,
                                      rows |-> get_transactions_dataframe(
                                                  sheet, req[r].year, errs)],
                                  ![r].read_error = errs # {},
                                  ![r].store_empty =
                                     IsEmptyFrame(sheet[req[r].year])]
            /\ UNCHANGED last
    /\ UNCHANGED <<now, sheet, _transactions_cache, _cache_timestamp>>

\* line 81: self._transactions_cache[year] = df
StoreTable(r) ==
    /\ req[r].pc = "store_table"
    /\ EventLoopRuns(r)
    /\ _transactions_cache' = [_transactions_cache EXCEPT ![req[r].year] = req[r].df]
    /\ req' = [req EXCEPT ![r].pc = "store_timestamp"]
    /\ UNCHANGED <<now, sheet, _cache_timestamp, fetches, last>>

\* line 82 left out: the timestamp of the year is not written
TimestampKept(stamps, year, t) == stamps

\* line 82: self._cache_timestamp[year] = now
TimestampSet(stamps, year, t) == [stamps EXCEPT ![year] = t]

\* lines 82-84: the timestamp is stored and df is returned
StoreTimestamp(r) ==
    /\ req[r].pc = "store_timestamp"
    /\ EventLoopRuns(r)
    /\ _cache_timestamp' = TimestampSet(_cache_timestamp, req[r].year, req[r].now)
    /\ last' = [year |-> req[r].year, at |-> req[r].now, outcome |-> "fetched",
                found |-> req[r].found, table |-> req[r].df,
                read_error |-> req[r].read_error, fetch_raised |-> FALSE,
                store_empty |-> req[r].store_empty]
    /\ req' = [req EXCEPT ![r] = IdleCall]
    /\ UNCHANGED <<now, sheet, _transactions_cache, fetches>>

\* time passes, also while a fetch blocks the loop
Tick ==
    /\ now < MaxTime
    /\ now' = now + 1
    /\ UNCHANGED <<sheet, _transactions_cache, _cache_timestamp, fetches, req, last>>

\* add_transaction, had it also dropped the cache entry of the year it
\* writes to
AddTransactionInvalidates(year, month, row) ==
    /\ EventLoopFree
    /\ row \notin sheet[year][month]
    /\ sheet' = [sheet EXCEPT ![year][month] = @ \cup {row}]
    /\ _transactions_cache' = [_transactions_cache EXCEPT ![year] = NoTable]
    /\ _cache_timestamp' = [_cache_timestamp EXCEPT ![year] = NoTimestamp]
    /\ UNCHANGED <<now, fetches, req, last>>

\* SheetsService.add_transaction, called by a handler of the same loop: a
\* row is appended to a monthly worksheet
AddTransaction(year, month, row) ==
    /\ EventLoopFree
    /\ row \notin sheet[year][month]
    /\ sheet' = [sheet EXCEPT ![year][month] = @ \cup {row}]
    /\ UNCHANGED <<now, _transactions_cache, _cache_timestamp, fetches, req, last>>

\* the parser is not part of the cache specification
ParserIdle ==
    /\ user_query = <<>>
    /\ now_year = 2026
    /\ capster_list = <<"Zidan", "Emma">>
    /\ call = "none"
    /\ multi_ret = <<>>
    /\ month_ret = NoMonth
    /\ range_ret = NoRange
    /\ qr = QueryResult(user_query)

CacheInit == ParserIdle /\ CacheIdle /\ QueryIdle /\ ReportIdle /\ WeekIdle /\ AuthIdle /\ BranchIdle

CacheNext ==
    \/ (\E r \in Requests : \E year \in Years : Begin(r, year))
           /\ UNCHANGED <<parserVars, queryVars, reportVars, weekVars, authVars, branchVars>>
    \/ (\E r \in Requests : \E errs \in SUBSET TxMonths : \E raises \in BOOLEAN :
           Fetch(r, errs, raises)) /\ UNCHANGED <<parserVars, queryVars, reportVars, weekVars, authVars, branchVars>>
    \/ (\E r \in Requests : StoreTable(r)) /\ UNCHANGED <<parserVars, queryVars, reportVars, weekVars, authVars, branchVars>>
    \/ (\E r \in Requests : StoreTimestamp(r)) /\ UNCHANGED <<parserVars, queryVars, reportVars, weekVars, authVars, branchVars>>
    \/ Tick /\ UNCHANGED <<parserVars, queryVars, reportVars, weekVars, authVars, branchVars>>
    \/ (\E year \in Years : \E month \in TxMonths : \E row \in Rows :
           AddTransaction(year, month, row))
           /\ UNCHANGED <<parserVars, queryVars, reportVars, weekVars, authVars, branchVars>>

CacheSpec == CacheInit /\ [][CacheNext]_vars

(***************************************************************************)
(* The texts of the parser specification: up to MaxPhrases phrases.        *)
(***************************************************************************)
Phrases ==
    { <<"20", "Januari", "2026">>, <<"28", "desember", "2025">>,
      <<"5", "jan">>, <<"31", "feb">>, <<"5">>,
      <<"sampai">>, <<"ke">>, <<"-">>, <<",">>,
      <<"bulan", "maret">>, <<"kemarin">>, <<"bulan", "lalu">>,
      <<"hari", "ini">>, <<"Pendapatan">>, <<"profit">>, <<"halo">> }

RECURSIVE Flatten(_)
Flatten(ps) == IF ps = <<>> THEN <<>> ELSE Head(ps) \o Flatten(Tail(ps))

Texts == { Flatten(ps) : ps \in UNION { [1..n -> Phrases] : n \in 0..MaxPhrases } }

NowYears == {2026}

(***************************************************************************)
(* Specification of the parser: a text is drawn, one parser function is    *)
(* applied to it.                                                          *)
(***************************************************************************)
ParserInit ==
    /\ user_query \in Texts
    /\ now_year \in NowYears
    /\ capster_list = <<"Zidan", "Emma">>
    /\ call = "none"
    /\ multi_ret = <<>>
    /\ month_ret = NoMonth
    /\ range_ret = NoRange
    /\ qr = QueryResult(user_query)
    /\ CacheIdle
    /\ ReportIdle /\ WeekIdle /\ AuthIdle /\ BranchIdle
    /\ QueryIdle

ParseMultipleDates ==
    /\ call = "none"
    /\ call' = "_parse_multiple_dates"
    /\ multi_ret' = _parse_multiple_dates(LowerQuery(user_query), now_year)
    /\ UNCHANGED <<user_query, now_year, range_ret, month_ret, qr, capster_list>>
    /\ UNCHANGED <<cacheVars, queryVars, reportVars, weekVars, authVars, branchVars>>

ParseDateRange ==
    /\ call = "none"
    /\ call' = "_parse_date_range"
    /\ range_ret' = _parse_date_range(LowerQuery(user_query), now_year)
    /\ UNCHANGED <<user_query, now_year, multi_ret, month_ret, qr, capster_list>>
    /\ UNCHANGED <<cacheVars, queryVars, reportVars, weekVars, authVars, branchVars>>

KeywordFallback ==
    /\ call = "none"
    /\ call' = "_keyword_fallback"
    /\ qr' = _keyword_fallback(user_query, now_year, capster_list)
    /\ UNCHANGED <<user_query, now_year, multi_ret, range_ret, month_ret, capster_list>>
    /\ UNCHANGED <<cacheVars, queryVars, reportVars, weekVars, authVars, branchVars>>

ParseSpecificMonth ==
    /\ call = "none"
    /\ call' = "_parse_specific_month"
    /\ month_ret' = _parse_specific_month(LowerQuery(user_query), now_year)
    /\ UNCHANGED <<user_query, now_year, multi_ret, range_ret, qr, capster_list>>
    /\ UNCHANGED <<cacheVars, queryVars, reportVars, weekVars, authVars, branchVars>>

ParserNext ==
    ParseMultipleDates \/ ParseDateRange \/ ParseSpecificMonth \/ KeywordFallback

ParserSpec == ParserInit /\ [][ParserNext]_vars

(***************************************************************************)
(* Specification of parse_query: a text and a service object are drawn,    *)
(* the coroutine runs; the AI service answers when it answers.             *)
(***************************************************************************)
QueryTexts == { Flatten(ps) : ps \in UNION { [1..n -> Phrases] : n \in 0..1 } }

QueryInit ==
    /\ user_query \in QueryTexts
    /\ now_year \in NowYears
    /\ capster_list = <<"Zidan", "Emma">>
    /\ call = "none"
    /\ multi_ret = <<>>
    /\ month_ret = NoMonth
    /\ range_ret = NoRange
    /\ qr = QueryResult(user_query)
    /\ CacheIdle
    /\ ReportIdle /\ WeekIdle /\ AuthIdle /\ BranchIdle
    /\ gemini_service \in Services
    /\ pq = "idle"
    /\ ai = AiPending
    /\ parsed = NotParsed
    /\ hq = "idle"
    /\ trace = <<>>
    /\ sent = "none"

QueryNext ==
    \/ ProcessQueryBegin
    \/ ParseQueryBegin
    \/ \E outcome \in AiOutcomes(gemini_service, user_query) : AiAnswers(outcome)
    \/ ParseQueryResume
    \/ \E outcome \in RetrieveOutcomes : ProcessQueryRetrieve(outcome)
    \/ ProcessQueryRespond

QuerySpec == QueryInit /\ [][QueryNext]_vars

\* the event loop runs every coroutine that can run; nothing makes the AI
\* service answer
QueryFairSpec ==
    /\ QueryInit
    /\ [][QueryNext]_vars
    /\ WF_vars(ProcessQueryBegin)
    /\ WF_vars(ParseQueryBegin)
    /\ WF_vars(ParseQueryResume)
    /\ WF_vars(\E outcome \in RetrieveOutcomes : ProcessQueryRetrieve(outcome))
    /\ WF_vars(ProcessQueryRespond)

(***************************************************************************)
(* Specification of the reports: a ledger and a day are drawn, one report  *)
(* function is applied.                                                    *)
(***************************************************************************)
ReportInit ==
    /\ ledger \in SUBSET RowPool
    /\ today \in Todays
    /\ report_call = NoReportCall
    /\ report_ret = <<>>
    /\ capster_sheet = CapsterSheet0
    /\ capster_alias_map = get_name_alias_map(CapsterSheet0)
    /\ ParserIdle /\ CacheIdle /\ QueryIdle /\ WeekIdle /\ AuthIdle /\ BranchIdle

ReportNext ==
    \/ \E year \in ProfitYears, month \in ProfitMonths :
           GenerateMonthlyProfit(year, month)
    \/ \E year \in ProfitYears, month \in ProfitMonths :
           GenerateWeeklyBreakdown(year, month)
    \/ \E c \in NewCapsters : AddCapster(c)
    \/ \E e \in CapsterEdits : UpdateCapster(e)
    \/ \E limit \in Limits : BuildCapsterRanking(limit)
    \/ \E q \in Intents(capster_sheet) : GenerateReportFromQuery(q)

ReportSpec == ReportInit /\ [][ReportNext]_vars

(***************************************************************************)
(* Specification of the week calculator: the weeks of one month are asked  *)
(* for.                                                                    *)
(***************************************************************************)
WeekInit ==
    /\ week_call = NoWeekCall
    /\ weeks = <<>>
    /\ ParserIdle /\ CacheIdle /\ QueryIdle /\ ReportIdle /\ AuthIdle /\ BranchIdle

WeekNext == \E year \in WeekYears, month \in 1..12 : GetWeeksInMonth(year, month)

WeekSpec == WeekInit /\ [][WeekNext]_vars

(***************************************************************************)
(* Specification of the report-type chain: a text is put together from one *)
(* keyword of every group of lines 70-99 and a word of no group, and the   *)
(* keyword fallback is applied to it.                                      *)
(***************************************************************************)
KeywordPhrases ==
    { <<"ranking">>, <<"perbandingan">>, <<"terlaris">>, <<"margin">>,
      <<"omzet">>, <<"transaksi">>, <<"daily">>, <<"weekly">>,
      <<"laporan", "bulanan">>, <<"halo">> }

KeywordTexts ==
    { Flatten(ps) : ps \in UNION { [1..n -> KeywordPhrases] : n \in 0..2 } }

KeywordInit ==
    /\ user_query \in KeywordTexts
    /\ now_year \in NowYears
    /\ capster_list = <<"Zidan", "Emma">>
    /\ call = "none"
    /\ multi_ret = <<>>
    /\ month_ret = NoMonth
    /\ range_ret = NoRange
    /\ qr = QueryResult(user_query)
    /\ CacheIdle /\ QueryIdle /\ ReportIdle /\ WeekIdle /\ AuthIdle /\ BranchIdle

KeywordNext == KeywordFallback

KeywordSpec == KeywordInit /\ [][KeywordNext]_vars

(***************************************************************************)
(* Specification of AuthService: the class starts with an empty list; it   *)
(* is initialized, and users are added and removed, in any order.          *)
(***************************************************************************)
AuthInit ==
    /\ _authorized_users = <<>>
    /\ auth_call = NoAuthCall
    /\ ParserIdle /\ CacheIdle /\ QueryIdle /\ ReportIdle /\ WeekIdle /\ BranchIdle

AuthNext ==
    \/ \E authorized_users \in UserLists : Initialize(authorized_users)
    \/ \E user_id \in UserIds : AddAuthorizedUser(user_id)
    \/ \E user_id \in UserIds : RemoveAuthorizedUser(user_id)

AuthSpec == AuthInit /\ [][AuthNext]_vars

(***************************************************************************)
(* Specification of BranchService and the payment handler: users select,   *)
(* read and clear their branch and save transactions while days pass.      *)
(***************************************************************************)
BranchInit ==
    /\ BranchIdle
    /\ ParserIdle /\ CacheIdle /\ QueryIdle /\ ReportIdle /\ WeekIdle /\ AuthIdle

BranchNext ==
    \/ \E user_id \in BranchUsers, branch_id \in BranchChoices :
           SetBranch(user_id, branch_id)
    \/ \E user_id \in BranchUsers : GetBranch(user_id)
    \/ \E user_id \in BranchUsers : ClearBranch(user_id)
    \/ DayChanges
    \/ \E user_id \in BranchUsers, valid \in BOOLEAN, success \in BOOLEAN :
           HandlePaymentSelection(user_id, valid, success)

BranchSpec == BranchInit /\ [][BranchNext]_vars

(***************************************************************************)
(* Claims about the keyword fallback and its date parsers (ParserSpec).    *)
(***************************************************************************)
\* the time-window forms an intent carries
FormsOf(r) ==
    {f \in {"dates", "range", "single", "month", "relative"} :
        \/ f = "dates" /\ r.specific_dates # <<>>
        \/ f = "range" /\ r.date_end # NoDate
        \/ f = "single" /\ r.specific_date # NoDate /\ r.date_end = NoDate
        \/ f = "month" /\ (r.specific_month # 0 \/ r.specific_year # 0)
        \/ f = "relative" /\ r.timeframe_str \in VALID_TIMEFRAMES}

\* the words of the relative keywords the fallback looks for, by tag
RelativeWords(tf) ==
    IF tf = "hari ini" THEN {<<"hari", "ini">>}
    ELSE IF tf = "kemarin" THEN {<<"kemarin">>}
    ELSE IF tf = "minggu lalu" THEN {<<"minggu", "lalu">>}
    ELSE IF tf = "minggu ini" THEN {<<"minggu", "ini">>}
    ELSE IF tf = "bulan lalu" THEN {<<"bulan", "lalu">>}
    ELSE IF tf = "bulan ini" THEN {<<"bulan", "ini">>}
    ELSE {<<"3", "bulan">>, <<"tiga", "bulan">>}

AnyRelativeWord(q) == \E tf \in VALID_TIMEFRAMES : HasAny(q, RelativeWords(tf))

\* C1: the intent of the keyword fallback carries exactly one time-window
\* form, the one of the first rule that produced a result in the order
\* discrete dates > range > single date > month > relative keyword > default
\* 'bulan ini', and the fields of the other forms are unset.
C1_OneFormByPrecedence ==
    call = "_keyword_fallback" =>
        LET q == LowerQuery(user_query)
            multi == _parse_multiple_dates(q, now_year)
            range == _parse_date_range(q, now_year)
            single == _parse_specific_date(q, now_year)
            month == _parse_specific_month(q, now_year)
        IN  /\ Cardinality(FormsOf(qr)) = 1
            /\ qr.date_end # NoDate => qr.specific_date # NoDate
            /\ qr.specific_year # 0 <=> qr.specific_month # 0
            /\ IF multi # <<>>
               THEN FormsOf(qr) = {"dates"} /\ qr.specific_dates = multi
               ELSE IF range # NoRange
               THEN /\ FormsOf(qr) = {"range"}
                    /\ <<qr.specific_date, qr.date_end>> = range
               ELSE IF single # NoDate
               THEN FormsOf(qr) = {"single"} /\ qr.specific_date = single
               ELSE IF month # NoMonth
               THEN /\ FormsOf(qr) = {"month"}
                    /\ <<qr.specific_month, qr.specific_year>> = month
               ELSE /\ FormsOf(qr) = {"relative"}
                    /\ IF AnyRelativeWord(q)
                       THEN HasAny(q, RelativeWords(qr.timeframe_str))
                       ELSE qr.timeframe_str = "bulan ini"

\* C1 witness: the fallback has run on a text where the discrete-dates rule,
\* the single-date rule and a relative keyword all apply, and the list of
\* dates was chosen
C1_Witness ==
    /\ call = "_keyword_fallback"
    /\ _parse_multiple_dates(LowerQuery(user_query), now_year) # <<>>
    /\ _parse_specific_date(LowerQuery(user_query), now_year) # NoDate
    /\ AnyRelativeWord(LowerQuery(user_query))
    /\ FormsOf(qr) = {"dates"}

\* the text has at least two day-month(-year) mentions, each of them a date
\* of the calendar, and no separator of either separator list stands between
\* the first two
TwoMentionsNoSeparator(q, nowYear) ==
    /\ Len(FindDates(q)) >= 2
    /\ Len(ParseReversed(FindDates(q), Len(FindDates(q)), 0, nowYear))
           = Len(FindDates(q))
    /\ \A k \in FindDates(q)[1].next..(FindDates(q)[2].start - 1) :
           q[k] \notin FullSeps \cup ShortSeps

IsSortedDistinct(ds) ==
    \A i \in 1..Len(ds) : \A j \in 1..Len(ds) : i < j => DateLT(ds[i], ds[j])

\* C7: for a text with two or more date mentions and no range separator
\* between the first two, _parse_multiple_dates returns an ascending list of
\* at least two pairwise distinct dates, and the intent has neither a single
\* date nor a range.
C7_DiscreteDatesSortedDistinct ==
    TwoMentionsNoSeparator(LowerQuery(user_query), now_year) =>
        /\ call = "_parse_multiple_dates" =>
               Len(multi_ret) >= 2 /\ IsSortedDistinct(multi_ret)
        /\ call = "_keyword_fallback" =>
               /\ Len(qr.specific_dates) >= 2
               /\ IsSortedDistinct(qr.specific_dates)
               /\ qr.specific_date = NoDate
               /\ qr.date_end = NoDate

\* the first full-date pair joined by a separator is inverted: both dates
\* are valid and the second is earlier than the first
InvertedPairOf(match, y1) ==
    /\ match.ok
    /\ ValidDate(y1, month_map[match.m1], match.d1)
    /\ ValidDate(FullYear2(match, y1), month_map[match.m2], match.d2)
    /\ DateLT(<<FullYear2(match, y1), month_map[match.m2], match.d2>>,
              <<y1, month_map[match.m1], match.d1>>)

InvertedPairOfMatch(match, nowYear) == InvertedPairOf(match, FullYear1(match, nowYear))

InvertedFullPair(q, nowYear) == InvertedPairOfMatch(SearchFull(q, 1), nowYear)

\* C8: a range returned by _parse_date_range has end >= start, and a text
\* whose two dates joined by a separator are inverted yields no range and
\* leaves date_end unset.
C8_InvertedPairNoRange ==
    /\ call = "_parse_date_range" /\ range_ret # NoRange =>
           DateLE(range_ret[1], range_ret[2])
    /\ InvertedFullPair(LowerQuery(user_query), now_year) =>
           /\ call = "_parse_date_range" => range_ret = NoRange
           /\ call = "_keyword_fallback" => qr.date_end = NoDate

(***************************************************************************)
(* Claims about the transaction cache (CacheSpec).                         *)
(***************************************************************************)
\* an entry for the year is stored and its age at time t is below the TTL
FreshEntry(year, t) ==
    /\ _transactions_cache[year] # NoTable
    /\ _cache_timestamp[year] # NoTimestamp
    /\ t - _cache_timestamp[year] < CACHE_DURATION

\* a step in which a call for the year starts: it returns the stored table
\* or goes on to fetch
CallStarts(year) ==
    \/ last' # last /\ last'.outcome = "hit" /\ last'.year = year
    \/ \E r \in Requests :
           req[r].pc = "idle" /\ req'[r].pc = "fetch" /\ req'[r].year = year

\* a step in which a call for the year returns a table
CallReturns(year) ==
    last' # last /\ last'.year = year /\ last'.outcome \in {"hit", "fetched"}

\* C2: a call for a year whose entry is younger than 5 minutes returns the
\* stored table itself and fetches nothing, so calls within the TTL of one
\* fetch all return that fetch's snapshot.
C2_FreshEntryServedWithoutFetch ==
    [][\A year \in Years :
          FreshEntry(year, now) /\ CallStarts(year) =>
              /\ last'.outcome = "hit" /\ last'.year = year
              /\ last'.table = _transactions_cache[year]
              /\ fetches' = fetches
              /\ \A r \in Requests : req'[r].pc = "idle"
              /\ UNCHANGED <<_transactions_cache, _cache_timestamp>>]_vars

\* C2 witness: after a single fetch a later call, still within the TTL, was
\* served the table of that fetch
C2_Witness ==
    /\ last.outcome = "hit"
    /\ fetches = 1
    /\ last.table.id = 1
    /\ last.at = last.table.at + CACHE_DURATION - 1

\* C3: no call returns a table whose stored timestamp is 5 minutes or more
\* before the call's `now`; a call that finds the entry missing or expired
\* fetches, and when it returns, the table and the timestamp of the year
\* are those of its own fetch.
C3_ExpiredEntryReplaced ==
    [][\A year \in Years :
          /\ CallStarts(year) /\ ~FreshEntry(year, now) =>
                 /\ \E r \in Requests : req'[r].pc = "fetch" /\ req'[r].year = year
                 /\ last' = last
          /\ CallReturns(year) =>
                 /\ last'.table = _transactions_cache'[year]
                 /\ last'.at - _cache_timestamp'[year] < CACHE_DURATION
                 /\ last'.found # "fresh" =>
                        /\ last'.outcome = "fetched"
                        /\ _cache_timestamp'[year] = last'.at
                        /\ last'.table.id = fetches
                        /\ last'.table.at = last'.at]_vars

\* C3 witness: an expired entry was found and the call returned a new fetch
C3_Witness ==
    /\ last.outcome = "fetched"
    /\ last.found = "expired"
    /\ _transactions_cache[last.year] = last.table

C5_ReadErrorSurfaces ==
    /\ last.read_error => last.outcome = "raised"
    /\ last.outcome = "fetched" /\ IsEmptyFrame(last.table.rows) => last.store_empty

\* C6: when the fetch raises, the call ends with the exception: it returns
\* no table, and the entry of the year stays as it was, not valid, so that
\* the next call fetches again.
C6_FetchErrorPropagates ==
    last.fetch_raised =>
        /\ last.outcome = "raised"
        /\ last.table = NoTable
        /\ EventLoopFree => ~FreshEntry(last.year, now)

\* C6 witness: the fetch raised while an expired snapshot was stored
C6_Witness ==
    /\ last.fetch_raised
    /\ last.found = "expired"
    /\ _transactions_cache[last.year] # NoTable

(***************************************************************************)
(* Claims about parse_query (QuerySpec, QueryFairSpec).                    *)
(***************************************************************************)
\* the AI parser was asked and gave an intent that is not None and valid
AiIntentUsable ==
    /\ gemini_service # "None"
    /\ is_available(gemini_service)
    /\ ai.state = "returned"
    /\ ~ai.is_none
    /\ is_valid(ai.value)

\* C9: parse_query raises nothing; it returns the intent of the keyword
\* fallback whenever the AI parser is not configured, is unavailable, raised,
\* returned None or returned an invalid intent, and the AI parser's intent
\* only when that is not None and valid.
C9_FallbackUnlessAiValid ==
    pq = "done" =>
        /\ ~parsed.raised
        /\ IF AiIntentUsable
           THEN parsed.via = "ai" /\ parsed.value = ai.value
           ELSE /\ parsed.via = "fallback"
                /\ parsed.value =
                       _keyword_fallback(user_query, now_year, capster_list)

\* C9 witness: the AI parser raised and parse_query returned the fallback's
\* intent for a text the fallback finds a date in
C9_Witness ==
    /\ pq = "done"
    /\ ai.state = "raised"
    /\ parsed.via = "fallback"
    /\ parsed.value.specific_date # NoDate

\* C10: every request that enters the parse step eventually leaves it, also
\* when the AI service never answers.
C10_ParseStepLeft == (pq = "awaiting_ai") ~> (pq = "done")

(***************************************************************************)
(* Further claims about the keyword fallback (ParserSpec).                 *)
(***************************************************************************)
\* the text has no report-type or metric keyword (the chain of lines 70-99
\* falls to its else branch) and no temporal expression: no date, range,
\* month name or relative keyword
NoSignal(q, nowYear) ==
    /\ ReportTypeOf(q).report_type = "general"
    /\ FindDates(q) = <<>>
    /\ _parse_date_range(q, nowYear) = NoRange
    /\ _parse_specific_month(q, nowYear) = NoMonth
    /\ \A j \in 1..Len(q) : ~HasMonth(q[j])
    /\ ~AnyRelativeWord(q)

\* C11: for a text with no report-type keyword, no metric word and no
\* temporal expression the intent of the keyword fallback is invalid:
\* is_valid() is false and is_valid_query is FALSE.
C11_NoSignalInvalid ==
    call = "_keyword_fallback" /\ NoSignal(LowerQuery(user_query), now_year) =>
        ~is_valid(qr) /\ ~qr.is_valid_query

ProfitCalled == report_call.fn = "generate_monthly_profit_dataframe"

\* the rows of one branch in the month that was asked for
BranchMonthRows(b) ==
    {r \in ledger : /\ r.date[1] = report_call.year
                    /\ r.date[2] = report_call.month
                    /\ r.branch = BRANCHES[b].short}

\* the figures of a row of the frame obey the profit model of branch b
\* (the rate is in percent)
ProfitIdentity(row, b) ==
    /\ row.Revenue = SumPrice(BranchMonthRows(b))
    /\ row.FixedCost = SumSeq(BRANCHES[b].operational_cost)
    /\ row.CommissionCost * 100 = row.Revenue * BRANCHES[b].commission_rate
    /\ row.OperationalCost = row.FixedCost + row.CommissionCost
    /\ row.NetProfit * 100 =
           row.Revenue * 100 - row.FixedCost * 100
           - row.Revenue * BRANCHES[b].commission_rate
    /\ BRANCHES[b].commission_rate = 0 =>
           row.NetProfit = row.Revenue - row.FixedCost

\* the two worked figures of the profit model
ScenarioD ==
    /\ ProfitRow(1000000, 600000, CommissionCost(1000000, 0)).NetProfit = 400000
    /\ CommissionCost(1000000, 50) = 500000
    /\ ProfitRow(1000000, 300000, CommissionCost(1000000, 50)).NetProfit = 200000

\* C13 (amended): for every configured branch and every month that has at
\* least one transaction, the profit frame gives commission cost = revenue x
\* rate, operational cost = fixed cost + commission cost and net profit =
\* revenue - fixed cost - revenue x rate, the revenue being the sum of the
\* prices of the branch's rows of the month; a month without any transaction
\* gives the empty frame.
C13_ProfitIdentityWhereData ==
    /\ ScenarioD
    /\ ProfitCalled =>
           IF MonthlyRows(ledger, report_call.year, report_call.month) = {}
           THEN report_ret = EmptyFrame
           ELSE \A b \in BranchIds :
                    /\ BRANCHES[b].short \in DOMAIN report_ret
                    /\ ProfitIdentity(report_ret[BRANCHES[b].short], b)

\* a month in which the branch with a commission has revenue
C13_Witness ==
    /\ ProfitCalled
    /\ DOMAIN report_ret # {}
    /\ report_ret["Cabang B"].CommissionCost > 0
    /\ report_ret["Cabang A"].Revenue > 0

\* C13 as stated: the identity for every configured branch and every month
C13_ProfitIdentityEveryMonth ==
    ProfitCalled =>
        \A b \in BranchIds :
            /\ BRANCHES[b].short \in DOMAIN report_ret
            /\ ProfitIdentity(report_ret[BRANCHES[b].short], b)

ReportCalled == report_call.fn = "generate_report_from_query"

\* the rows of the loaded tables inside the time filter of the intent that
\* were recorded under one of the names, whatever the case of the letters
RowsRecordedUnder(names) ==
    {r \in LoadedRows(ledger, report_ret.years) :
        /\ InTimeFilter(r.date, report_call.query_result, today)
        /\ Lower(r.capster) \in {Lower(n) : n \in names}}

\* the report was asked for capster c alone, by name or by alias
AskedFor(c) ==
    /\ c.alias # ""
    /\ report_call.query_result.capsters \in {<<c.name>>, <<c.alias>>}

\* C14: for every capster record with name n and alias a, a report filtered
\* by [n] and a report filtered by [a] select the same rows, namely all rows
\* recorded under n or under a.
C14_AliasEquivalence ==
    ReportCalled /\ report_ret.outcome # "None" =>
        \A i \in 1..Len(report_call.capster_sheet) :
            AskedFor(report_call.capster_sheet[i]) =>
                report_ret.rows =
                    RowsRecordedUnder({report_call.capster_sheet[i].name,
                                       report_call.capster_sheet[i].alias})

(***************************************************************************)
(* Claims about the week calculator (WeekSpec).                            *)
(***************************************************************************)
WeeksCalled == week_call # NoWeekCall

DayOne == <<week_call[1], week_call[2], 1>>

\* the first Monday of the month, counted from day 1
RECURSIVE MondayOnOrAfter(_)
MondayOnOrAfter(d) == IF weekday(d) = 0 THEN d ELSE MondayOnOrAfter(NextDay(d))

\* C15: week 1 starts on day 1 of the month, whether or not it is a Monday,
\* and when it is not, week 2 starts on the first Monday of the month.
C15_WeekOneStartsOnDayOne ==
    WeeksCalled =>
        /\ Len(weeks) >= 1
        /\ weeks[1].start_date = DayOne
        /\ weekday(DayOne) # 0 =>
               /\ Len(weeks) >= 2
               /\ weeks[2].start_date = MondayOnOrAfter(DayOne)

(***************************************************************************)
(* Further claims about the keyword fallback (ParserSpec).                 *)
(***************************************************************************)
\* the text names no date and no month: it has no day followed by a month,
\* no range, and none of its words is the name of a month
NoDateNoMonthName(q, nowYear) ==
    /\ FindDates(q) = <<>>
    /\ _parse_date_range(q, nowYear) = NoRange
    /\ \A j \in 1..Len(q) : ~IsMonthName(q[j])

\* tf is the only phrase of the relative vocabulary in the text
OnlyRelativePhrase(q, tf) ==
    /\ HasAny(q, RelativeWords(tf))
    /\ \A other \in VALID_TIMEFRAMES \ {tf} : ~HasAny(q, RelativeWords(other))

\* C16: a text that holds a phrase of the relative vocabulary (and no other
\* one), no day-month date and no month name gets that phrase's tag from the
\* keyword fallback, and neither a specific date nor a specific month.
C16_RelativePhraseOwnTag ==
    call = "_keyword_fallback" =>
        \A tf \in VALID_TIMEFRAMES :
            /\ OnlyRelativePhrase(LowerQuery(user_query), tf)
            /\ NoDateNoMonthName(LowerQuery(user_query), now_year)
            => /\ qr.timeframe_str = tf
               /\ qr.specific_date = NoDate
               /\ qr.specific_month = 0

\* the keyword groups of lines 70-99, in the order of the chain
ReportGroups ==
    << [type |-> "capster_ranking",
        kws |-> {<<"ranking">>, <<"terbaik">>, <<"top", "capster">>,
                 <<"capster", "terbaik">>, <<"peringkat">>}],
       [type |-> "branch_comparison",
        kws |-> {<<"banding">>, <<"perbandingan">>, <<"compare">>,
                 <<"vs", "cabang">>}],
       [type |-> "service_popularity",
        kws |-> {<<"layanan", "populer">>, <<"service", "terpopuler">>,
                 <<"paling", "laku">>, <<"terlaris">>}],
       [type |-> "profit",
        kws |-> {<<"laba">>, <<"rugi">>, <<"profit">>, <<"keuntungan">>,
                 <<"margin">>}],
       [type |-> "revenue",
        kws |-> {<<"pendapatan">>, <<"revenue">>, <<"omzet">>, <<"omset">>,
                 <<"pemasukan">>, <<"income">>}],
       [type |-> "transaction_count",
        kws |-> {<<"transaksi">>, <<"transaction">>, <<"jumlah">>}],
       [type |-> "daily_summary",
        kws |-> {<<"laporan", "harian">>, <<"ringkasan", "harian">>, <<"daily">>}],
       [type |-> "weekly_summary",
        kws |-> {<<"laporan", "mingguan">>, <<"ringkasan", "mingguan">>,
                 <<"weekly">>}],
       [type |-> "monthly_summary",
        kws |-> {<<"laporan", "bulanan">>, <<"ringkasan", "bulanan">>,
                 <<"monthly">>, <<"laporan", "bulan">>}] >>

\* the groups a text matches
MatchingGroups(q) ==
    {g \in 1..Len(ReportGroups) : HasAny(q, ReportGroups[g].kws)}

\* C17: the keyword fallback gives the type of the earliest matching group
\* in the order capster ranking > branch comparison > service popularity >
\* profit > revenue > transaction count > daily > weekly > monthly summary,
\* 'general' with the metrics revenue and transaction_count when no group
\* matches, and always a type of the closed set.
C17_ReportTypeFirstMatch ==
    call = "_keyword_fallback" =>
        /\ qr.report_type \in VALID_REPORT_TYPES
        /\ \A g \in MatchingGroups(LowerQuery(user_query)) :
               (\A h \in MatchingGroups(LowerQuery(user_query)) : g <= h)
               => qr.report_type = ReportGroups[g].type
        /\ MatchingGroups(LowerQuery(user_query)) = {} =>
               /\ qr.report_type = "general"
               /\ qr.metrics = <<"revenue", "transaction_count">>

\* the fallback has run on a text that matches two groups, the later group's
\* keyword standing first in the text
C17_Witness ==
    /\ call = "_keyword_fallback"
    /\ Cardinality(MatchingGroups(LowerQuery(user_query))) >= 2
    /\ Lower(user_query[1]) = "omzet"
    /\ qr.report_type = "capster_ranking"

(***************************************************************************)
(* Claims about AuthService (AuthSpec).                                    *)
(***************************************************************************)
\* C18: is_authorized(u) is false for every id before initialization, true
\* exactly for the listed ids after initialize, true for u after
\* add_authorized_user(u), and false for u after remove_authorized_user(u)
\* has returned True.
C18_AuthorizedExactlyWhenMeant ==
    /\ auth_call.op = "none" => \A u \in UserIds : ~is_authorized(u)
    /\ auth_call.op = "initialize" =>
           \A u \in UserIds : is_authorized(u) <=> InSeq(u, auth_call.users)
    /\ auth_call.op = "add_authorized_user" => is_authorized(auth_call.user)
    /\ auth_call.op = "remove_authorized_user" =>
           /\ auth_call.ret => ~is_authorized(auth_call.user)
           /\ ~auth_call.ret => ~is_authorized(auth_call.user)

\* the month and year of the time window of a profit intent
WindowMonth(q, now_) ==
    IF q.specific_month # 0 /\ q.specific_year # 0
    THEN <<q.specific_year, q.specific_month>>
    ELSE IF TimeframeOr(q) = "bulan lalu"
    THEN <<LastMonthOf(now_)[1], LastMonthOf(now_)[2]>>
    ELSE <<now_[1], now_[2]>>

\* the report reached its type-specific part: tables were loaded and the
\* filters left rows
ReportBuilt == ReportCalled /\ report_ret.outcome \notin {"None", "not_found"}

\* C19: for an intent of type profit, generate_report_from_query does not
\* raise and evaluates the profit model for the month and year of the
\* intent's window: the named month, the previous month for 'bulan lalu',
\* the current month for 'bulan ini'.
C19_ProfitOfWindowMonth ==
    ReportBuilt /\ report_call.query_result.report_type = "profit" =>
        /\ report_ret.outcome # "raises"
        /\ report_ret.profit.called
        /\ <<report_ret.profit.year, report_ret.profit.month>>
               = WindowMonth(report_call.query_result, today)

\* the rows of the whole ledger inside the time window of the intent
RowsInWindow(q, now_) == {r \in ledger : InTimeFilter(r.date, q, now_)}

\* the calendar years the time window of the intent has rows in
YearsOfWindow(q, now_) == { r.date[1] : r \in RowsInWindow(q, now_) }

NoEntityFilter(q) == q.capsters = <<>> /\ q.branches = <<>>

\* C20: the years whose tables generate_report_from_query loads cover every
\* year the intent's time window reaches into, so that the rows selected
\* are exactly the rows of the ledger inside the window.
C20_LoadedYearsCoverWindow ==
    ReportCalled /\ NoEntityFilter(report_call.query_result) =>
        /\ YearsOfWindow(report_call.query_result, today) \subseteq report_ret.years
        /\ report_ret.rows = RowsInWindow(report_call.query_result, today)

\* the report was asked for branch b alone, as the parser names it
AskedForBranch(b) ==
    /\ report_call.query_result.branches = <<BRANCHES[b].name>>
    /\ report_call.query_result.capsters = <<>>

\* the rows of the loaded tables inside the time filter that the transaction
\* handlers recorded for branch b (transaction.py line 83: the short label)
RowsRecordedFor(b) ==
    {r \in LoadedRows(ledger, report_ret.years) :
        /\ InTimeFilter(r.date, report_call.query_result, today)
        /\ r.branch = BRANCHES[b].short}

\* C21: a report for a branch named in the text, by its name or by an alias
\* of the fixed table, selects exactly the rows recorded for that branch.
C21_BranchFilterSelectsBranchRows ==
    ReportCalled /\ report_ret.outcome # "None" =>
        \A b \in BranchIds :
            AskedForBranch(b) => report_ret.rows = RowsRecordedFor(b)

BreakdownCalled ==
    report_call.fn = "generate_weekly_breakdown" /\ report_ret.outcome = "report"

\* the days of the month that was asked for
DaysOfCall ==
    { <<report_call.year, report_call.month, d>> :
        d \in 1..DaysInMonth(report_call.year, report_call.month) }

InWeek(date, week) == DateLE(week.start_date, date) /\ DateLE(date, week.end_date)

\* C22: the weeks of get_weeks_in_month are pairwise disjoint and together
\* hold every day of the month, so the transactions counted week by week by
\* generate_weekly_breakdown are as many as the transactions of the month.
C22_WeeksPartitionMonth ==
    BreakdownCalled =>
        /\ \A i, j \in 1..Len(report_ret.weeks) :
               i < j => DateLT(report_ret.weeks[i].end_date,
                               report_ret.weeks[j].start_date)
        /\ \A day \in DaysOfCall :
               \E i \in 1..Len(report_ret.weeks) : InWeek(day, report_ret.weeks[i])
        /\ report_ret.total_month_transactions =
               Cardinality(MonthlyRows(ledger, report_call.year, report_call.month))


(***************************************************************************)
(* Claims about the frame of the transaction cache (CacheSpec).            *)
(***************************************************************************)

\* the entry of year y: the stored table and the stored timestamp
EntryChanged(y) ==
    \/ _transactions_cache'[y] # _transactions_cache[y]
    \/ _cache_timestamp'[y] # _cache_timestamp[y]

\* a call of _get_or_fetch_transactions for year y that found the entry
\* missing or expired is at its two stores
Refreshing(y) ==
    \E r \in Requests :
        /\ req[r].year = y
        /\ req[r].found \in {"missing", "expired"}
        /\ req[r].pc \in {"store_table", "store_timestamp"}

\* a call has just returned the stored entry
HitStep == last' # last /\ last'.outcome = "hit"

\* C23: the entry of a year changes only in a step of a call for that year
\* that found it missing or expired; recording a transaction and calls for
\* other years leave it unchanged, and a call within the TTL returns the
\* stored snapshot as it was fetched, whatever the ledger holds by then.
C23_EntryChangedOnlyByOwnRefresh ==
    [][/\ \A y \in Years : EntryChanged(y) => Refreshing(y)
       /\ HitStep => /\ last'.table = _transactions_cache[last'.year]
                     /\ last'.table.at = _cache_timestamp[last'.year]
                     /\ UNCHANGED <<_transactions_cache, _cache_timestamp>>]_vars

\* C23 witness: a call was served from the cache the snapshot of a year
\* whose worksheet holds a row that the snapshot does not hold
C23_Witness ==
    /\ last.outcome = "hit"
    /\ last.table = _transactions_cache[last.year]
    /\ last.table.id # 0
    /\ \E m \in TxMonths :
           /\ last.table.rows[m] \subseteq sheet[last.year][m]
           /\ last.table.rows[m] # sheet[last.year][m]


\* the alias map a restart would build from the capster records of the call
RestartMap == get_name_alias_map(report_call.capster_sheet)

\* C24: after a capster was added or edited while the bot runs, the alias
\* map in use is the one built from the current capster records, and a
\* report from a query is the report a restarted bot would give: a query
\* by the primary name also selects the rows recorded under the alias.
C24_AliasMapFollowsRecords ==
    /\ capster_alias_map = get_name_alias_map(capster_sheet)
    /\ ReportCalled =>
           report_ret = generate_report_from_query(ledger, report_call.query_result,
                                                   RestartMap, today)


(***************************************************************************)
(* Claims about the years of _parse_multiple_dates (ParserSpec).           *)
(***************************************************************************)

\* the date mentions of the text, as re.finditer gives them
Mentions == FindDates(LowerQuery(user_query))

\* the years written in the text
ExplicitYears(ms) == { ms[k].year : k \in {j \in 1..Len(ms) : ms[j].hasYear} }

\* mention k has a mention with a year to its right
YearedToRight(ms, k) == \E j \in (k + 1)..Len(ms) : ms[j].hasYear

\* the year of the nearest mention right of k that has one
YearToRight(ms, k) ==
    ms[CHOOSE j \in (k + 1)..Len(ms) :
          ms[j].hasYear /\ \A i \in (k + 1)..(j - 1) : ~ms[i].hasYear].year

MultipleDatesReturned == call = "_parse_multiple_dates" /\ multi_ret # <<>>

\* a mention without a year gets the year of the nearest yeared mention to
\* its right
TakesYearToRight(ms) ==
    \A k \in 1..Len(ms) :
        /\ ~ms[k].hasYear
        /\ YearedToRight(ms, k)
        /\ ValidDate(YearToRight(ms, k), month_map[ms[k].mon], ms[k].day)
        => InSeq(<<YearToRight(ms, k), month_map[ms[k].mon], ms[k].day>>, multi_ret)

\* a returned date has the current year although no mention says so: the
\* default was used
CurrentYearDefaulted(ms) ==
    /\ \E i \in 1..Len(multi_ret) : multi_ret[i][1] = now_year
    /\ now_year \notin ExplicitYears(ms)

\* C25: in the list of _parse_multiple_dates a mention without a year has
\* the year of the nearest mention to its right that has one, and the
\* current year is given to a mention only when no mention of the text has
\* an explicit year.
C25_YearFromRightElseCurrent ==
    MultipleDatesReturned =>
        /\ TakesYearToRight(Mentions)
        /\ CurrentYearDefaulted(Mentions) => ExplicitYears(Mentions) = {}


(***************************************************************************)
(* Claims about _parse_specific_month (ParserSpec).                        *)
(***************************************************************************)

\* the text holds a month name: a word that is a full name or an
\* abbreviation of month_map
MonthWords(q) == {j \in 1..Len(q) : IsMonthName(q[j])}

\* the first month name of the text
FirstMonthWord(q) == CHOOSE j \in MonthWords(q) : \A k \in MonthWords(q) : j <= k

\* the month name in word j is immediately preceded by a day digit
DayDigitBefore(q, j) == j > 1 /\ IsNum(q[j - 1])

\* the year of the month name in word j: the 4-digit year that follows it,
\* otherwise the current year
YearAfter(q, j, nowYear) ==
    IF j + 1 <= Len(q) /\ IsYear4(q[j + 1]) THEN NumTok[q[j + 1]] ELSE nowYear

\* what the text asks for: the month and year of its first month name,
\* unless a day digit stands immediately before it
MonthAsked(q, nowYear) ==
    IF MonthWords(q) = {} THEN NoMonth
    ELSE IF DayDigitBefore(q, FirstMonthWord(q)) THEN NoMonth
    ELSE <<month_map[q[FirstMonthWord(q)]], YearAfter(q, FirstMonthWord(q), nowYear)>>

SpecificMonthCalled == call = "_parse_specific_month"

\* C26: _parse_specific_month returns (month, year) for the month name of
\* the text exactly when no day digit stands immediately before that month
\* name; the year is the 4-digit year after it, otherwise the current year,
\* and 'bulan maret' with current year 2026 gives (3, 2026).
C26_MonthUnlessDayDigitBefore ==
    /\ _parse_specific_month(<<"bulan", "maret">>, 2026) = <<3, 2026>>
    /\ SpecificMonthCalled => month_ret = MonthAsked(LowerQuery(user_query), now_year)


(***************************************************************************)
(* Claims about the separators of the two date rules (ParserSpec).         *)
(***************************************************************************)

\* the first two date mentions of the text are joined by separator w: w is
\* the one word between them
JoinedBy(q, ms, w) ==
    /\ Len(ms) >= 2
    /\ ms[2].start = ms[1].next + 1
    /\ q[ms[1].next] = w

FallbackCalled == call = "_keyword_fallback"

\* C27: a text whose first two date mentions are joined by a separator of
\* the date-range rule (sampai, hingga, s/d, s.d., sd, ke, -) gets the
\* window of a date range and never a list of discrete dates.
C27_RangeSeparatorNeverDiscrete ==
    FallbackCalled =>
        \A w \in FullSeps :
            JoinedBy(LowerQuery(user_query), Mentions, w) =>
                /\ qr.specific_dates = <<>>
                /\ qr.timeframe_str = "<start> - <end>"


(***************************************************************************)
(* Claims about the row 'Overall' of the monthly profit (ReportSpec).      *)
(***************************************************************************)

\* the rows of the month of the call, whatever their branch label
MonthRowsOfCall == MonthlyRows(ledger, report_call.year, report_call.month)

\* a row of the month bears a label of no configured branch
UnknownBranchRows == {r \in MonthRowsOfCall : r.branch \notin BranchShorts}

ProfitFrameReturned == ProfitCalled /\ DOMAIN report_ret # {}

\* C28: the Overall revenue of the monthly profit is the sum of the prices
\* of all rows of the month; a row whose branch label is of no configured
\* branch is counted too, and adds no commission and no fixed cost.
C28_OverallCountsEveryRow ==
    ProfitFrameReturned =>
        /\ report_ret["Overall"].Revenue = SumPrice(MonthRowsOfCall)
        /\ report_ret["Overall"].FixedCost =
               report_ret["Cabang A"].FixedCost + report_ret["Cabang B"].FixedCost
        /\ report_ret["Overall"].CommissionCost =
               report_ret["Cabang A"].CommissionCost
               + report_ret["Cabang B"].CommissionCost


(***************************************************************************)
(* Claims about the capster ranking (ReportSpec).                          *)
(***************************************************************************)

RankingCalled == report_call.fn = "_build_capster_ranking"

\* the capsters of the frame and the capsters listed
CapstersOfFrame == {r.capster : r \in ledger}

Listed == {report_ret[i].capster : i \in 1..Len(report_ret)}

\* C29: the ranking lists at most `limit` capsters of the frame, each once,
\* with the sum of the prices and the number of its own rows, in
\* non-increasing order of revenue; no capster left out has a strictly
\* greater revenue than a listed one, and none is left out while the list
\* is shorter than `limit`.
C29_RankingTopByRevenue ==
    RankingCalled =>
        /\ Len(report_ret) <= report_call.limit
        /\ Listed \subseteq CapstersOfFrame
        /\ Cardinality(Listed) = Len(report_ret)
        /\ \A i \in 1..Len(report_ret) :
               /\ report_ret[i].revenue = SumPrice(CapsterRows(ledger, report_ret[i].capster))
               /\ report_ret[i].count = Cardinality(CapsterRows(ledger, report_ret[i].capster))
        /\ \A i, j \in 1..Len(report_ret) :
               i < j => report_ret[i].revenue >= report_ret[j].revenue
        /\ \A c \in CapstersOfFrame \ Listed :
               /\ Len(report_ret) = report_call.limit
               /\ \A i \in 1..Len(report_ret) :
                      SumPrice(CapsterRows(ledger, c)) <= report_ret[i].revenue

\* C29 witness: a ranking of two capsters was cut from a frame of four or
\* more, with different revenues in the list
C29_Witness ==
    /\ RankingCalled
    /\ report_call.limit = 2
    /\ Len(report_ret) = 2
    /\ Cardinality(CapstersOfFrame) >= 4
    /\ report_ret[1].revenue > report_ret[2].revenue
    /\ report_ret[1].count >= 2


(***************************************************************************)
(* Claims about BranchService (BranchSpec).                                *)
(***************************************************************************)

\* the last call read the branch of its user and got a branch id
BranchIdReturned ==
    /\ branch_call.op \in {"get_branch", "handle_payment_selection"}
    /\ branch_call.ret \notin {"None", "invalid"}

\* the selection of user u is of calendar day d: the latest set_branch of u
\* happened on day d and was not cleared since
SelectedOn(selection, d) == selection # NoSelection /\ selection.date = d

\* C30: get_branch returns a branch id only if the user's latest set_branch
\* happened on the current calendar day and was not cleared since, and then
\* the id of that selection; a read that finds a selection of an earlier
\* day returns nothing and deletes it; every saved transaction was saved
\* with a same-day selection of its user and bears its branch.
C30_BranchOnlyOfSameDay ==
    /\ BranchIdReturned =>
           /\ SelectedOn(selected[branch_call.user], branch_call.at)
           /\ branch_call.ret = selected[branch_call.user].branch_id
    /\ branch_call.op = "get_branch" /\ branch_call.ret = "None" =>
           _user_branches[branch_call.user] = NoSelection
    /\ \A u \in BranchUsers :
           _user_branches[u] # NoSelection => _user_branches[u] = selected[u]
    /\ \A i \in 1..Len(saved) :
           /\ SelectedOn(saved[i].selection, saved[i].date)
           /\ saved[i].branch_id = saved[i].selection.branch_id

\* C30 witness: a user selected a branch on an earlier day, read it on a
\* later day and got nothing, the entry is gone, and a transaction of that
\* earlier day is saved
C30_Witness ==
    /\ branch_call.op = "get_branch"
    /\ branch_call.ret = "None"
    /\ selected[branch_call.user] # NoSelection
    /\ selected[branch_call.user].date < branch_call.at
    /\ _user_branches[branch_call.user] = NoSelection
    /\ Len(saved) >= 1
    /\ saved[1].user = branch_call.user
    /\ saved[1].date < branch_call.at

====
